---- MODULE Spec2Model ----
(***************************************************************************)
(* A model of the endorser-ch claim services: JwtService (claim ingestion, *)
(* confirmations, hash chain) and ActionService (visibility-filtered       *)
(* reads).  The store (endorser.db.service), the helpers of ./util and the *)
(* network cache service are collaborators whose code is not part of the   *)
(* sources modelled here; their operators follow the design document.      *)
(***************************************************************************)
EXTENDS Integers, Sequences, FiniteSets, TLC

VARIABLES
  jwt,            \* table jwt: the envelope rows, in id order
  registration,   \* table registration
  event,          \* table event
  action,         \* table action_claim
  tenure,         \* table tenure_claim
  orgRole,        \* table org_role_claim
  vote,           \* table vote_claim
  confirmation,   \* table confirmation
  network,        \* table network: the "sees" edges <<subject, object>>
  netCache,       \* the process-wide cache: requester -> visible identities
  now,            \* the server clock, in ticks
  NODE_ENV,       \* process.env.NODE_ENV, fixed at start-up
  inflight,       \* the calls in progress: <<>> or the one array dispatch
  last            \* the latest call and what it returned (history)

vars == <<jwt, registration, event, action, tenure, orgRole, vote,
          confirmation, network, netCache, now, NODE_ENV, inflight, last>>

tables == <<jwt, registration, event, action, tenure, orgRole, vote,
            confirmation, network>>

-----------------------------------------------------------------------------
(* Bounds of the model *)

MaxJwt == 2
MaxTime == 2
WeekLen == 2
MonthLen == 4

-----------------------------------------------------------------------------
(* Program constants.  The two default quotas are read from the           *)
(* environment (100 and 10 if unset); the model runs with small ones.      *)

DEFAULT_MAX_CLAIMS_PER_WEEK == 2
DEFAULT_MAX_REGISTRATIONS_PER_MONTH == 1

SERVICE_ID == "endorser.ch"
HIDDEN_TEXT == "did:none:HIDDEN"
SchemaOrg == "https://schema.org"
LegacySchemaOrg == "http://schema.org"
EndorserCh == "https://endorser.ch"

\* a nullable number column that holds no number (ids and counts are >= 0)
NoNum == 0 - 1
\* a nullable id that is null (row ids start at 1)
NoId == 1 - 1

DIDs == {"did:A", "did:B", "did:C"}

Has(o, k) == k \in DOMAIN o

SeqMin(s) == CHOOSE i \in s : \A j \in s : i <= j
SeqMax(s) == CHOOSE i \in s : \A j \in s : i >= j

StartOfWeek(t) == t - (t % WeekLen)
StartOfMonth(t) == t - (t % MonthLen)

-----------------------------------------------------------------------------
(* Claims: JSON objects as records; '@context' and '@type' are the fields  *)
(* context and type.                                                       *)

Event1 == [organizer |-> [name |-> "Bountiful"], name |-> "Meeting",
           startTime |-> "2018-12-29"]

JoinAction(agentDid) ==
  [context |-> SchemaOrg, type |-> "JoinAction",
   agent |-> [did |-> agentDid], event |-> Event1]

JoinActionNoAgentDid ==
  [context |-> SchemaOrg, type |-> "JoinAction",
   agent |-> [name |-> "someone"], event |-> Event1]

Tenure(partyDid) ==
  [context |-> EndorserCh, type |-> "Tenure",
   spatialUnit |-> [geo |-> [type |-> "GeoShape", polygon |-> "40.88,-111.88"]],
   party |-> [did |-> partyDid]]

OrgRoleClaim(memberDid) ==
  [context |-> SchemaOrg, type |-> "Organization", name |-> "Club",
   member |-> [type |-> "OrganizationRole", roleName |-> "President",
               startDate |-> "2019-04-01", endDate |-> "2020-03-31",
               member |-> [identifier |-> memberDid]]]

PersonClaim(did) ==
  [context |-> SchemaOrg, type |-> "Person", identifier |-> did]

AgreeAction(origClaim) ==
  [context |-> SchemaOrg, type |-> "AgreeAction", object |-> origClaim]

RegisterAction(agentDid, participantDid) ==
  [context |-> SchemaOrg, type |-> "RegisterAction",
   agent |-> [did |-> agentDid], participant |-> [did |-> participantDid],
   object |-> SERVICE_ID]

VoteAction ==
  [context |-> SchemaOrg, type |-> "VoteAction", actionOption |-> "yes",
   candidate |-> [name |-> "Someone"],
   object |-> [event |-> [name |-> "Election", startDate |-> "2019-06-18"]]]

\* a JSON array is the record [array |-> <<elements>>]
JsonArray(items) == [array |-> items]
isArray(v) == Has(v, "array")

\* a string property that may be undefined: "" stands for undefined / null
Str(o, k) == IF Has(o, k) THEN o[k] ELSE ""

-----------------------------------------------------------------------------
(* Hex digests are sequences: <<>> is the empty string "", NullHex is a    *)
(* null column, and a SHA-256 digest is the tagged tuple of what was       *)
(* hashed (distinct inputs give distinct digests).                         *)

EmptyHex == <<>>
NullHex == <<"null">>
sha256(data) == <<"sha256", data>>

\* canonicalize (npm): the byte-stable serialisation of a JSON value;
\* records carry no key order, so the string is the tagged value
canonicalize(json) == <<"json", json>>
JSON_parse(str) == str[2]
base64url_encode(str) == <<"base64url", str>>

-----------------------------------------------------------------------------
(* ./util                                                                  *)

\* where the claims of this model carry identities
RECURSIVE allDidsInside(_)
allDidsInside(claim) ==
  IF isArray(claim)
  THEN UNION {allDidsInside(claim.array[i]) : i \in 1..Len(claim.array)}
  ELSE
    (IF Has(claim, "agent") /\ Has(claim.agent, "did")
       THEN {claim.agent.did} ELSE {})
    \cup (IF Has(claim, "participant") /\ Has(claim.participant, "did")
       THEN {claim.participant.did} ELSE {})
    \cup (IF Has(claim, "party") /\ Has(claim.party, "did")
       THEN {claim.party.did} ELSE {})
    \cup (IF Has(claim, "identifier") THEN {claim.identifier} ELSE {})
    \cup (IF Has(claim, "member") /\ Has(claim.member, "member")
             /\ Has(claim.member.member, "identifier")
       THEN {claim.member.member.identifier} ELSE {})
    \cup (IF Has(claim, "type") /\ claim.type = "AgreeAction" /\ Has(claim, "object")
       THEN allDidsInside(claim.object) ELSE {})
    \cup (IF Has(claim, "originalClaim")
       THEN allDidsInside(claim.originalClaim) ELSE {})
    \cup (IF Has(claim, "originalClaims")
       THEN allDidsInside(claim.originalClaims) ELSE {})

\* the claim with every identity replaced by the hidden placeholder
maskAgent(c) ==
  IF Has(c, "agent") /\ Has(c.agent, "did")
  THEN [c EXCEPT !.agent.did = HIDDEN_TEXT] ELSE c

maskParticipant(c) ==
  IF Has(c, "participant") /\ Has(c.participant, "did")
  THEN [c EXCEPT !.participant.did = HIDDEN_TEXT] ELSE c

maskParty(c) ==
  IF Has(c, "party") /\ Has(c.party, "did")
  THEN [c EXCEPT !.party.did = HIDDEN_TEXT] ELSE c

maskIdentifier(c) ==
  IF Has(c, "identifier") THEN [c EXCEPT !.identifier = HIDDEN_TEXT] ELSE c

maskMember(c) ==
  IF Has(c, "member") /\ Has(c.member, "member") /\ Has(c.member.member, "identifier")
  THEN [c EXCEPT !.member.member.identifier = HIDDEN_TEXT] ELSE c

maskOwnDids(c) == maskMember(maskIdentifier(maskParty(maskParticipant(maskAgent(c)))))

RECURSIVE maskDids(_)
maskDids(claim) ==
  IF isArray(claim)
  THEN JsonArray([i \in 1..Len(claim.array) |-> maskDids(claim.array[i])])
  ELSE [k \in DOMAIN claim |->
          IF k = "object" /\ Str(claim, "type") = "AgreeAction" THEN maskDids(claim.object)
          ELSE IF k \in {"originalClaim", "originalClaims"} THEN maskDids(claim[k])
          ELSE maskOwnDids(claim)[k]]

\* maskedHash: the digest of the canonical claim with identities masked
hashedClaimWithHashedDids(idAndClaim) ==
  sha256(canonicalize(maskDids(JSON_parse(idAndClaim.claim))))

\* chainLink over a list of rows: hash(previous || maskedHash(row)), in order
RECURSIVE hashChain(_, _)
hashChain(seedHex, idAndClaimList) ==
  IF idAndClaimList = <<>> THEN seedHex
  ELSE hashChain(sha256(<<seedHex, hashedClaimWithHashedDids(Head(idAndClaimList))>>),
                 Tail(idAndClaimList))

calcBbox(polygon) == <<"bbox", polygon>>

-----------------------------------------------------------------------------
(* ./endorser.db.service: the store.  S is the record of the tables; a     *)
(* lookup of one row returns <<row>> or <<>> (null), a lookup of an id     *)
(* returns the id or NoId (null); an insert returns the new table, the new *)
(* row id being its length.                                                *)

Store ==
  [jwt |-> jwt, registration |-> registration, event |-> event,
   action |-> action, tenure |-> tenure, orgRole |-> orgRole, vote |-> vote,
   confirmation |-> confirmation, network |-> network, netCache |-> netCache]

RowsWhere(table, Test(_)) == {i \in 1..Len(table) : Test(table[i])}

FirstWhere(table, Test(_)) ==
  LET m == RowsWhere(table, Test) IN IF m = {} THEN <<>> ELSE <<table[SeqMin(m)]>>

FirstIdWhere(table, Test(_)) ==
  LET m == RowsWhere(table, Test) IN IF m = {} THEN NoId ELSE SeqMin(m)

registrationByDid(S, did) ==
  LET Test(r) == r.did = did IN FirstWhere(S.registration, Test)

\* envelopes of this issuer issued since the given time
jwtCountByAfter(S, issuer, time) ==
  LET Test(r) == r.issuer = issuer /\ r.issuedAt >= time
  IN Cardinality(RowsWhere(S.jwt, Test))

\* registrations made by this registrar since the given epoch
registrationCountByAfter(S, issuer, time) ==
  LET Test(r) == r.agent = issuer /\ r.epoch # NoNum /\ r.epoch >= time
  IN Cardinality(RowsWhere(S.registration, Test))

\* the envelope row to insert: the store assigns the next id and stamps the
\* issue time; its content hash is computed when it is built
buildJwtEntity(S, time, payload, claim, claimStr, claimEncoded, jwtEncoded) ==
  LET entity ==
        [id |-> Len(S.jwt) + 1, issuedAt |-> time, issuer |-> payload.iss,
         subject |-> Str(payload, "sub"),
         claimContext |-> Str(claim, "context"), claimType |-> Str(claim, "type"),
         claim |-> claimStr, claimEncoded |-> claimEncoded,
         jwtEncoded |-> jwtEncoded,
         hashHex |-> NullHex, hashChainHex |-> NullHex]
  IN [entity EXCEPT !.hashHex = hashedClaimWithHashedDids(entity)]

jwtInsert(S, entity) == [S EXCEPT !.jwt = Append(@, entity)]

jwtById(S, id) == LET Test(r) == r.id = id IN FirstWhere(S.jwt, Test)

\* the rows with no chain value yet, in id order
RECURSIVE SelectUnmerkled(_)
SelectUnmerkled(rows) ==
  IF rows = <<>> THEN <<>>
  ELSE IF Head(rows).hashChainHex = NullHex
       THEN <<Head(rows)>> \o SelectUnmerkled(Tail(rows))
       ELSE SelectUnmerkled(Tail(rows))

jwtClaimsAndIdsUnmerkled(S) == SelectUnmerkled(S.jwt)

\* the chain value of the chained row with the highest id, if any
jwtLastMerkleHash(S) ==
  LET Test(r) == r.hashChainHex # NullHex
      m == RowsWhere(S.jwt, Test)
  IN IF m = {} THEN <<>> ELSE <<[hashChainHex |-> S.jwt[SeqMax(m)].hashChainHex]>>

jwtSetMerkleHash(S, id, hashHex, hashChainHex) ==
  [S EXCEPT !.jwt = [i \in 1..Len(@) |->
      IF @[i].id = id
      THEN [@[i] EXCEPT !.hashHex = hashHex, !.hashChainHex = hashChainHex]
      ELSE @[i]]]

eventsByParams(S, params) ==
  LET Test(r) == /\ r.orgName = params.orgName /\ params.orgName # ""
                 /\ r.name = params.name
                 /\ r.startTime = params.startTime
      RECURSIVE Select(_)
      Select(rows) == IF rows = <<>> THEN <<>>
                      ELSE IF Test(Head(rows)) THEN <<Head(rows)>> \o Select(Tail(rows))
                      ELSE Select(Tail(rows))
  IN Select(S.event)

eventInsert(S, orgName, name, startTime) ==
  [S EXCEPT !.event = Append(@, [id |-> Len(@) + 1, orgName |-> orgName,
                                 name |-> name, startTime |-> startTime])]

actionClaimById(S, id) == LET Test(r) == r.id = id IN FirstWhere(S.action, Test)

actionClaimIdByDidEventId(S, agentDid, eventId) ==
  LET Test(r) == r.agentDid = agentDid /\ agentDid # "" /\ r.eventRowId = eventId
  IN FirstIdWhere(S.action, Test)

actionClaimInsert(S, issuerDid, agentDid, jwtId, ev) ==
  [S EXCEPT !.action = Append(@,
      [id |-> Len(@) + 1, issuerDid |-> issuerDid, agentDid |-> agentDid,
       jwtId |-> jwtId, eventRowId |-> ev.id, eventOrgName |-> ev.orgName,
       eventName |-> ev.name, eventStartTime |-> ev.startTime])]

tenureClaimIdByPartyAndGeoShape(S, partyDid, polygon) ==
  LET Test(r) == r.partyDid = partyDid /\ partyDid # "" /\ r.polygon = polygon
  IN FirstIdWhere(S.tenure, Test)

tenureInsert(S, entity) ==
  [S EXCEPT !.tenure = Append(@, [id |-> Len(@) + 1] @@ entity)]

orgRoleClaimIdByOrgAndDates(S, orgName, roleName, startDate, endDate, memberDid) ==
  LET Test(r) == /\ r.orgName = orgName /\ r.roleName = roleName
                 /\ r.startDate = startDate /\ r.endDate = endDate
                 /\ r.memberDid = memberDid
  IN FirstIdWhere(S.orgRole, Test)

orgRoleInsert(S, entity) ==
  [S EXCEPT !.orgRole = Append(@, [id |-> Len(@) + 1] @@ entity)]

\* the optional quota overrides of a new row are null
registrationInsert(S, reg) ==
  [S EXCEPT !.registration = Append(@,
      [id |-> Len(@) + 1, did |-> reg.did, agent |-> Str(reg, "agent"),
       epoch |-> IF Has(reg, "epoch") THEN reg.epoch ELSE NoNum,
       jwtId |-> IF Has(reg, "jwtId") THEN reg.jwtId ELSE NoId,
       maxClaims |-> IF Has(reg, "maxClaims") THEN reg.maxClaims ELSE NoNum,
       maxRegs |-> IF Has(reg, "maxRegs") THEN reg.maxRegs ELSE NoNum])]

voteInsert(S, entity) ==
  [S EXCEPT !.vote = Append(@, [id |-> Len(@) + 1] @@ entity)]

confirmationByIssuerAndAction(S, issuerDid, actionRowId) ==
  LET Test(r) == r.issuer = issuerDid /\ r.actionRowId = actionRowId
  IN FirstWhere(S.confirmation, Test)

confirmationByIssuerAndTenure(S, issuerDid, tenureRowId) ==
  LET Test(r) == r.issuer = issuerDid /\ r.tenureRowId = tenureRowId
  IN FirstWhere(S.confirmation, Test)

confirmationByIssuerAndOrgRole(S, issuerDid, orgRoleRowId) ==
  LET Test(r) == r.issuer = issuerDid /\ r.orgRoleRowId = orgRoleRowId
  IN FirstWhere(S.confirmation, Test)

\* matched on the canonicalized content of the confirmed claim
confirmationByIssuerAndOrigClaim(S, issuerDid, origClaim) ==
  LET Test(r) == r.issuer = issuerDid /\ r.origClaim = canonicalize(origClaim)
  IN FirstWhere(S.confirmation, Test)

confirmationInsert(S, issuer, jwtId, origClaimStr, actionRowId, tenureRowId, orgRoleRowId) ==
  [S EXCEPT !.confirmation = Append(@,
      [id |-> Len(@) + 1, jwtId |-> jwtId, issuer |-> issuer,
       origClaim |-> origClaimStr, actionRowId |-> actionRowId,
       tenureRowId |-> tenureRowId, orgRoleRowId |-> orgRoleRowId])]

\* the identities the requester may see: the objects of its stored edges
getNetwork(S, requesterDid) == {e[2] : e \in {x \in S.network : x[1] = requesterDid}}

-----------------------------------------------------------------------------
(* ./network-cache.service                                                 *)

netCache_get(cache, key) == IF key \in DOMAIN cache THEN <<cache[key]>> ELSE <<>>

netCache_set(cache, key, value) ==
  [k \in DOMAIN cache \cup {key} |-> IF k = key THEN value ELSE cache[k]]

netCache_del(cache, key) == [k \in DOMAIN cache \ {key} |-> cache[k]]

\* a faulty variant of addCanSee: the cached visible set is left in place
addCanSee_keepCache(S, subject, object) ==
  [S EXCEPT !.network = @ \cup {<<subject, object>>}]

\* addCanSee(subject, object): subject may see object.  Adding an existing
\* edge changes nothing; the subject's cached visible set is invalidated.
addCanSee(S, subject, object) ==
  [S EXCEPT !.network = @ \cup {<<subject, object>>},
            !.netCache = netCache_del(@, subject)]

-----------------------------------------------------------------------------
(* JwtService                                                              *)

\* a faulty variant of isContextSchemaOrg: every context taken for schema.org
isContextSchemaOrg_any(context) == TRUE

isContextSchemaOrg(context) == context = SchemaOrg \/ context = LegacySchemaOrg

isContextSchemaForConfirmation(context) == isContextSchemaOrg(context)

isEndorserRegistrationClaim(claim) ==
  /\ isContextSchemaOrg(Str(claim, "context"))
  /\ Str(claim, "type") = "RegisterAction"
  /\ Str(claim, "object") = SERVICE_ID

\* a rejection: the Error message and the row id it names (NoId if none)
Reject(message, ref) == [error |-> message, ref |-> ref]
NoError == Reject("", NoId)
TypeError == Reject("TypeError: Cannot read property of undefined", NoId)

\* a faulty variant of alreadyConfirmed: the duplicate check left out
alreadyConfirmed_never(conf) == FALSE

\* "check for duplicate": a confirmation by this issuer for this target exists
alreadyConfirmed(conf) == conf # <<>>

\* a faulty variant of actionAlreadyExists: the duplicate check left out
actionAlreadyExists_never(actionClaimId) == FALSE

\* an action claim of this agent at this event exists
actionAlreadyExists(actionClaimId) == actionClaimId # NoId

Confirmed(S, confirmId, actionClaimId, tenureClaimId, orgRoleClaimId) ==
  [S |-> S, err |-> NoError, confirmId |-> confirmId, actionClaimId |-> actionClaimId,
   tenureClaimId |-> tenureClaimId, orgRoleClaimId |-> orgRoleClaimId]

NotConfirmed(S, err) ==
  [S |-> S, err |-> err, confirmId |-> NoId, actionClaimId |-> NoId,
   tenureClaimId |-> NoId, orgRoleClaimId |-> NoId]

\* a faulty variant of unrecorded: the missing target not noticed
unrecorded_never(claimId) == FALSE

\* the lookup of the confirmed record found none (=== null)
unrecorded(claimId) == claimId = NoId

\* a faulty variant of confirmGeneric: the first Action row put down as target
confirmGeneric_firstAction(S, issuerDid, jwtId, origClaimStr) ==
  confirmationInsert(S, issuerDid, jwtId, origClaimStr, 1, NoId, NoId)

\* the confirmation of a claim of no recorded kind: no target
confirmGeneric(S, issuerDid, jwtId, origClaimStr) ==
  confirmationInsert(S, issuerDid, jwtId, origClaimStr, NoId, NoId, NoId)

createOneConfirmation(S, jwtId, issuerDid, origClaimIn) ==
  LET origClaim == IF Has(origClaimIn, "context") THEN origClaimIn
                   ELSE [context |-> SchemaOrg] @@ origClaimIn
      origClaimStr == canonicalize(origClaim)
      newId == Len(S.confirmation) + 1
  IN
  IF isContextSchemaOrg(origClaim.context) /\ Str(origClaim, "type") = "JoinAction" THEN
    IF ~(Has(origClaim, "event") /\ Has(origClaim.event, "organizer")) THEN NotConfirmed(S, TypeError)
    ELSE
    LET events == eventsByParams(S, [orgName |-> Str(origClaim.event.organizer, "name"),
                                     name |-> Str(origClaim.event, "name"),
                                     startTime |-> Str(origClaim.event, "startTime")])
    IN
    IF Len(events) = 0
    THEN NotConfirmed(S, Reject("Attempted to confirm action at an unrecorded event.", NoId))
    ELSE IF ~Has(origClaim, "agent") THEN NotConfirmed(S, TypeError)
    ELSE
    LET actionClaimId == actionClaimIdByDidEventId(S, Str(origClaim.agent, "did"), events[1].id)
        conf == confirmationByIssuerAndAction(S, issuerDid, actionClaimId)
    IN
    IF unrecorded(actionClaimId)
    THEN NotConfirmed(S, Reject("Attempted to confirm an unrecorded action.", NoId))
    ELSE IF alreadyConfirmed(conf)
    THEN NotConfirmed(S, Reject("Attempted to confirm an action already confirmed in # ", conf[1].id))
    ELSE Confirmed(confirmationInsert(S, issuerDid, jwtId, origClaimStr, actionClaimId, NoId, NoId),
                   newId, actionClaimId, NoId, NoId)

  ELSE IF origClaim.context = EndorserCh /\ Str(origClaim, "type") = "Tenure" THEN
    IF ~(Has(origClaim, "party") /\ Has(origClaim, "spatialUnit")
         /\ Has(origClaim.spatialUnit, "geo")) THEN NotConfirmed(S, TypeError)
    ELSE
    LET tenureClaimId == tenureClaimIdByPartyAndGeoShape(S, Str(origClaim.party, "did"),
                             Str(origClaim.spatialUnit.geo, "polygon"))
        conf == confirmationByIssuerAndTenure(S, issuerDid, tenureClaimId)
    IN
    IF unrecorded(tenureClaimId)
    THEN NotConfirmed(S, Reject("Attempted to confirm an unrecorded tenure.", NoId))
    ELSE IF alreadyConfirmed(conf)
    THEN NotConfirmed(S, Reject("Attempted to confirm a tenure already confirmed in # ", conf[1].id))
    ELSE Confirmed(confirmationInsert(S, issuerDid, jwtId, origClaimStr, NoId, tenureClaimId, NoId),
                   newId, NoId, tenureClaimId, NoId)

  ELSE IF /\ isContextSchemaOrg(origClaim.context)
          /\ Str(origClaim, "type") = "Organization"
          /\ Has(origClaim, "member")
          /\ Str(origClaim.member, "type") = "OrganizationRole"
          /\ Has(origClaim.member, "member")
          /\ Str(origClaim.member.member, "identifier") # "" THEN
    LET orgRoleClaimId == orgRoleClaimIdByOrgAndDates(S, Str(origClaim, "name"),
                              Str(origClaim.member, "roleName"), Str(origClaim.member, "startDate"),
                              Str(origClaim.member, "endDate"), origClaim.member.member.identifier)
        conf == confirmationByIssuerAndOrgRole(S, issuerDid, orgRoleClaimId)
    IN
    IF unrecorded(orgRoleClaimId)
    THEN NotConfirmed(S, Reject("Attempted to confirm an unrecorded orgRole.", NoId))
    ELSE IF alreadyConfirmed(conf)
    THEN NotConfirmed(S, Reject("Attempted to confirm a orgRole already confirmed in # ", conf[1].id))
    ELSE Confirmed(confirmationInsert(S, issuerDid, jwtId, origClaimStr, NoId, NoId, orgRoleClaimId),
                   newId, NoId, NoId, orgRoleClaimId)

  ELSE
    LET conf == confirmationByIssuerAndOrigClaim(S, issuerDid, origClaim)
    IN
    IF alreadyConfirmed(conf)
    THEN NotConfirmed(S, Reject("Attempted to confirm a claim already confirmed in # ", conf[1].id))
    ELSE Confirmed(confirmGeneric(S, issuerDid, jwtId, origClaimStr),
                   newId, NoId, NoId, NoId)

\* one awaited createOneConfirmation per original claim, in order; a rejection
\* is caught (console.log) and the loop goes on.  The result keeps the store
\* and the recordings made so far.
RECURSIVE confirmEach(_, _, _, _, _)
\* a faulty variant of pushRecording: the loop left at the first rejection
pushRecording_untilRejected(r, jwtId, issuerDid, origClaims, recordings) ==
  IF r.err # NoError
  THEN [S |-> r.S, recordings |-> Append(recordings, [r EXCEPT !.S = <<>>])]
  ELSE confirmEach(r.S, jwtId, issuerDid, origClaims, Append(recordings, [r EXCEPT !.S = <<>>]))

pushRecording(r, jwtId, issuerDid, origClaims, recordings) ==
  confirmEach(r.S, jwtId, issuerDid, origClaims, Append(recordings, [r EXCEPT !.S = <<>>]))

confirmEach(S, jwtId, issuerDid, origClaims, recordings) ==
  IF origClaims = <<>> THEN [S |-> S, recordings |-> recordings]
  ELSE pushRecording(createOneConfirmation(S, jwtId, issuerDid, Head(origClaims)),
                     jwtId, issuerDid, Tail(origClaims), recordings)

\* what creating the typed records of one claim did: the store, the rejection
\* (NoError if it resolved) and the confirmations attempted
Embedded(S, err, recordings) == [S |-> S, err |-> err, recordings |-> recordings]

\* the record creation resolves after the confirmations attempted
resolved(r) == Embedded(r.S, NoError, r.recordings)

\* the originalClaims of a (deprecated) Confirmation, after its originalClaim
confirmOriginalClaims(r, jwtId, issuerDid, claim) ==
  IF Has(claim, "originalClaims")
  THEN confirmEach(r.S, jwtId, issuerDid, claim.originalClaims.array, r.recordings)
  ELSE r

\* a faulty variant of noEventYet: the lookup's result ignored
noEventYet_always(events) == TRUE

\* "events.length === 0": no event with these parameters is recorded
noEventYet(events) == Len(events) = 0

createEmbeddedClaimRecord(S, time, jwtId, issuerDid, claim) ==
  IF isContextSchemaOrg(Str(claim, "context")) /\ Str(claim, "type") = "AgreeAction" THEN
    IF ~Has(claim, "object") THEN Embedded(S, NoError, <<>>)
    ELSE resolved(confirmEach(S, jwtId, issuerDid,
                              IF isArray(claim.object) THEN claim.object.array
                              ELSE <<claim.object>>, <<>>))

  ELSE IF isContextSchemaOrg(Str(claim, "context")) /\ Str(claim, "type") = "JoinAction" THEN
    IF ~Has(claim, "agent") THEN Embedded(S, TypeError, <<>>)
    ELSE
    LET agentDid == Str(claim.agent, "did") IN
    IF agentDid = ""
    THEN Embedded(S, Reject("Attempted to record a JoinAction claim with no agent DID.", NoId), <<>>)
    ELSE IF ~Has(claim, "event")
    THEN Embedded(S, Reject("Attempted to record a JoinAction claim with no event info.", NoId), <<>>)
    ELSE
    LET orgName == IF Has(claim.event, "organizer") THEN Str(claim.event.organizer, "name") ELSE ""
        name == Str(claim.event, "name")
        startTime == Str(claim.event, "startTime")
        events == eventsByParams(S, [orgName |-> orgName, name |-> name, startTime |-> startTime])
    IN
    IF noEventYet(events) THEN
      LET S1 == eventInsert(S, orgName, name, startTime)
          ev == [id |-> Len(S1.event), orgName |-> orgName, name |-> name, startTime |-> startTime]
      IN Embedded(actionClaimInsert(S1, issuerDid, agentDid, jwtId, ev), NoError, <<>>)
    ELSE
      LET ev == events[1]
          actionClaimId == actionClaimIdByDidEventId(S, agentDid, events[1].id)
      IN IF actionAlreadyExists(actionClaimId)
         THEN Embedded(S, Reject("Same user attempted to record an action claim that already exists with ID ",
                                 actionClaimId), <<>>)
         ELSE Embedded(actionClaimInsert(S, issuerDid, agentDid, jwtId, ev), NoError, <<>>)

  ELSE IF /\ isContextSchemaOrg(Str(claim, "context"))
          /\ Str(claim, "type") = "Organization"
          /\ Has(claim, "member")
          /\ Str(claim.member, "type") = "OrganizationRole"
          /\ (~Has(claim.member, "member") \/ Str(claim.member.member, "identifier") # "") THEN
    IF ~Has(claim.member, "member") THEN Embedded(S, TypeError, <<>>)
    ELSE
    LET entity == [jwtId |-> jwtId, issuerDid |-> issuerDid, orgName |-> Str(claim, "name"),
                   roleName |-> Str(claim.member, "roleName"),
                   startDate |-> Str(claim.member, "startDate"),
                   endDate |-> Str(claim.member, "endDate"),
                   memberDid |-> claim.member.member.identifier]
    IN Embedded(orgRoleInsert(S, entity), NoError, <<>>)

  ELSE IF isEndorserRegistrationClaim(claim) THEN
    IF ~(Has(claim, "participant") /\ Has(claim, "agent")) THEN Embedded(S, TypeError, <<>>)
    ELSE
    LET reg == [did |-> Str(claim.participant, "did"), agent |-> Str(claim.agent, "did"),
                epoch |-> time, jwtId |-> jwtId]
    IN Embedded(registrationInsert(S, reg), NoError, <<>>)

  ELSE IF Str(claim, "context") = EndorserCh /\ Str(claim, "type") = "Tenure" THEN
    IF ~(Has(claim, "spatialUnit") /\ Has(claim.spatialUnit, "geo")) THEN Embedded(S, TypeError, <<>>)
    ELSE
    LET polygon == Str(claim.spatialUnit.geo, "polygon")
        entity == [jwtId |-> jwtId, issuerDid |-> issuerDid,
                   partyDid |-> IF Has(claim, "party") THEN Str(claim.party, "did") ELSE "",
                   polygon |-> polygon, bbox |-> calcBbox(polygon)]
    IN Embedded(tenureInsert(S, entity), NoError, <<>>)

  ELSE IF isContextSchemaOrg(Str(claim, "context")) /\ Str(claim, "type") = "VoteAction" THEN
    IF ~(Has(claim, "object") /\ Has(claim.object, "event")) THEN Embedded(S, TypeError, <<>>)
    ELSE
    LET entity == [jwtId |-> jwtId, issuerDid |-> issuerDid,
                   actionOption |-> Str(claim, "actionOption"),
                   candidate |-> IF Has(claim, "candidate") THEN <<claim.candidate>> ELSE <<>>,
                   eventName |-> Str(claim.object.event, "name"),
                   eventStartTime |-> Str(claim.object.event, "startDate")]
    IN Embedded(voteInsert(S, entity), NoError, <<>>)

  ELSE IF isContextSchemaForConfirmation(Str(claim, "context")) /\ Str(claim, "type") = "Confirmation" THEN
    resolved(confirmOriginalClaims(
               IF Has(claim, "originalClaim")
               THEN confirmEach(S, jwtId, issuerDid, <<claim.originalClaim>>, <<>>)
               ELSE [S |-> S, recordings |-> <<>>],
               jwtId, issuerDid, claim))

  ELSE Embedded(S, NoError, <<>>)

RECURSIVE addCanSeeEach(_, _, _)
addCanSeeEach(S, dids, issuerDid) ==
  IF dids = {} THEN S
  ELSE LET did == CHOOSE d \in dids : TRUE
       IN addCanSeeEach(addCanSee(S, did, issuerDid), dids \ {did}, issuerDid)

\* Array payloads (one createEmbeddedClaimRecord started per element, then
\* Promise.all) are not among the payloads drawn here.
\* "now record all the sees relationships to the issuer": reached only if
\* the awaited record creation did not reject
recordSees(r, issuerDid, claim) ==
  IF r.err # NoError
  THEN r
  ELSE Embedded(addCanSeeEach(r.S, allDidsInside(claim), issuerDid), NoError, r.recordings)

\* a claim that is not an array; the elements of an array are started
\* together and resume step by step (StartArray, ResumeElement)
createEmbeddedClaimRecords(S, time, jwtId, issuerDid, claim) ==
  recordSees(createEmbeddedClaimRecord(S, time, jwtId, issuerDid, claim), issuerDid, claim)

\* A token is [verifies, payload], with a header where it matters: verifies
\* is whether the signature checks against the issuer's resolved key.

\* the seconds by which test-local mode extends an expired token
ExpExtension == 100

\* didJwt.verifyJWT rejects a token whose exp has passed
expired(time, payload) == Has(payload, "exp") /\ payload.exp <= time

\* didJwt.verifyJWT: <<the verified token>>, or <<>> when it throws
verifyJWT(time, jwtEncoded) ==
  IF jwtEncoded.verifies /\ ~expired(time, jwtEncoded.payload)
  THEN <<[payload |-> jwtEncoded.payload, issuer |-> jwtEncoded.payload.iss,
          header |-> IF Has(jwtEncoded, "header") THEN jwtEncoded.header ELSE [typ |-> "JWT"]]>>
  ELSE <<>>

\* a faulty variant of testLocalDecode: an expired exp left as it is
testLocalDecode_keepExp(time, jwtEncoded) ==
  [payload |-> jwtEncoded.payload, issuer |-> jwtEncoded.payload.iss,
   header |-> [typ |-> "test"]]

\* the test-local branch: the payload decoded and trusted, an exp that has
\* passed replaced
testLocalDecode(time, jwtEncoded) ==
  [payload |-> IF Has(jwtEncoded.payload, "exp") /\ jwtEncoded.payload.exp < time
               THEN [jwtEncoded.payload EXCEPT !.exp = time + ExpExtension]
               ELSE jwtEncoded.payload,
   issuer |-> jwtEncoded.payload.iss,
   header |-> [typ |-> "test"]]

\* a faulty variant of decodeAndVerifyJwt: the test-local branch taken always
decodeAndVerifyJwt_decodeOnly(env, time, jwtEncoded) == <<testLocalDecode(time, jwtEncoded)>>

\* <<[payload, issuer, header]>>, or <<>> (rejected with JWT_VERIFY_FAILED)
decodeAndVerifyJwt(env, time, jwtEncoded) ==
  IF env = "test-local"
  THEN <<testLocalDecode(time, jwtEncoded)>>
  ELSE verifyJWT(time, jwtEncoded)

\* JSON null
JsonNull == [isNull |-> TRUE]

\* the property is there and "||" or "&&" takes it for true: an object is,
\* null and undefined are not
truthy(o, k) == Has(o, k) /\ o[k] # JsonNull

\* a faulty variant of extractClaim: vc.credentialSubject looked at first
extractClaim_subjectFirst(payload) ==
  IF truthy(payload, "vc") /\ truthy(payload.vc, "credentialSubject")
  THEN <<payload.vc.credentialSubject>>
  ELSE IF truthy(payload, "claim") THEN <<payload.claim>>
       ELSE <<>>

\* <<the claim>>, or <<>> for null
extractClaim(payload) ==
  IF truthy(payload, "claim") THEN <<payload.claim>>
  ELSE IF truthy(payload, "vc") /\ truthy(payload.vc, "credentialSubject")
       THEN <<payload.vc.credentialSubject>>
       ELSE <<>>

\* what a createWithClaimRecord call did: the store and the settled promise
\* (code "" and the envelope id when it resolved)
Settled(S, code, id, embedded) ==
  [S |-> S, code |-> code, id |-> id, embeddedError |-> embedded.err,
   recordings |-> embedded.recordings]

RejectedWith(S, code) == Settled(S, code, NoId, Embedded(S, NoError, <<>>))

\* a faulty variant of registeredFor: the lookup without its WHERE clause
registeredFor_anyRow(S, payload) ==
  IF S.registration = <<>> THEN <<>> ELSE <<S.registration[1]>>

registeredFor(S, payload) == registrationByDid(S, payload.iss)

\* "0 shouldn't mean DEFAULT"
maxAllowedClaimsOf(registered) ==
  IF registered.maxClaims # NoNum THEN registered.maxClaims ELSE DEFAULT_MAX_CLAIMS_PER_WEEK

maxAllowedRegsOf(registered) ==
  IF registered.maxRegs # NoNum THEN registered.maxRegs ELSE DEFAULT_MAX_REGISTRATIONS_PER_MONTH

\* a faulty variant of overClaimLimit: > for >=
overClaimLimit_gt(claimedCount, maxAllowedClaims) == claimedCount > maxAllowedClaims

overClaimLimit(claimedCount, maxAllowedClaims) == claimedCount >= maxAllowedClaims

\* a faulty variant of resolveWithId: the rejection passed on to the caller
resolveWithId_propagate(embedded, id) ==
  IF embedded.err = NoError
  THEN [S |-> embedded.S, code |-> "", id |-> id, embeddedError |-> embedded.err,
        recordings |-> embedded.recordings]
  ELSE [S |-> embedded.S, code |-> embedded.err.error, id |-> NoId,
        embeddedError |-> embedded.err, recordings |-> embedded.recordings]

\* a rejection of createEmbeddedClaimRecords is caught and logged (l.warn);
\* the call returns jwtEntity.id
resolveWithId(embedded, id) == Settled(embedded.S, "", id, embedded)

\* a faulty variant of issuerMismatch: the expected issuer is not looked at
issuerMismatch_never(authIssuerId, payload) == FALSE

\* the caller expects an issuer, and the token is issued by another
issuerMismatch(authIssuerId, payload) == authIssuerId # "" /\ payload.iss # authIssuerId

\* the envelope is stored: the store, the id the envelope got, and what the
\* dispatch of its claim will work with
Inserted(S, id, issuerDid, claim) ==
  [S |-> S, code |-> "", id |-> id, issuerDid |-> issuerDid, claim |-> claim]

\* the submission has passed the weekly count: the payload and the
\* registration row it goes on with
Admitted(S, payload, registered) ==
  [S |-> S, code |-> "", payload |-> payload, registered |-> registered]

\* the checks up to the weekly count: a rejection, or the admitted payload
admitEnvelope(S, env, time, jwtEncoded, authIssuerId) ==
  LET decoded == decodeAndVerifyJwt(env, time, jwtEncoded) IN
  IF decoded = <<>> THEN RejectedWith(S, "JWT_VERIFY_FAILED")
  ELSE
  LET payload == decoded[1].payload IN
  IF issuerMismatch(authIssuerId, payload)
  THEN RejectedWith(S, "JWT issuer does not match claim issuer")
  ELSE
  LET registered == registeredFor(S, payload) IN
  IF registered = <<>> THEN RejectedWith(S, "UNREGISTERED_USER")
  ELSE
  LET startOfWeek == StartOfWeek(time)
      claimedCount == jwtCountByAfter(S, payload.iss, startOfWeek)
      maxAllowedClaims == maxAllowedClaimsOf(registered[1])
  IN
  IF overClaimLimit(claimedCount, maxAllowedClaims) THEN RejectedWith(S, "OVER_CLAIM_LIMIT")
  ELSE Admitted(S, payload, registered)

\* a faulty variant of registrationRejection: the week of the registrar's
\* own registration looked at before its monthly count
registrationRejection_tooSoonFirst(regCount, maxAllowedRegs, registered, startOfWeek) ==
  IF registered.epoch > startOfWeek THEN "CANNOT_REGISTER_TOO_SOON"
  ELSE IF regCount >= maxAllowedRegs THEN "OVER_REGISTRATION_LIMIT"
  ELSE ""

\* the checks of a registration claim: the code it is rejected with, "" if
\* it passes
registrationRejection(regCount, maxAllowedRegs, registered, startOfWeek) ==
  IF regCount >= maxAllowedRegs THEN "OVER_REGISTRATION_LIMIT"
  ELSE IF registered.epoch > startOfWeek THEN "CANNOT_REGISTER_TOO_SOON"
  ELSE ""

\* what follows the weekly count: the claim is extracted, a registration
\* claim is checked against the registrar's limits, and the envelope is
\* inserted into the store as it is by then
insertAdmitted(S, time, jwtEncoded, payload, registered) ==
  LET startOfWeek == StartOfWeek(time)
      extracted == extractClaim(payload) IN
  IF extracted = <<>> THEN RejectedWith(S, "JWT had no 'claim' property.")
  ELSE
  LET payloadClaim == extracted[1]
      regCount == registrationCountByAfter(S, payload.iss, StartOfMonth(time))
      maxAllowedRegs == maxAllowedRegsOf(registered[1])
  IN
  IF /\ isEndorserRegistrationClaim(payloadClaim)
     /\ registrationRejection(regCount, maxAllowedRegs, registered[1], startOfWeek) # ""
  THEN RejectedWith(S, registrationRejection(regCount, maxAllowedRegs, registered[1], startOfWeek))
  ELSE
  LET claimStr == canonicalize(payloadClaim)
      claimEncoded == base64url_encode(claimStr)
      jwtEntity == buildJwtEntity(S, time, payload, payloadClaim, claimStr, claimEncoded, jwtEncoded)
      S1 == jwtInsert(S, jwtEntity)
      issuerDid == payload.iss
  IN Inserted(S1, jwtEntity.id, issuerDid, payloadClaim)

\* the admitted submission goes on at once
afterAdmit(a, S, time, jwtEncoded) ==
  IF a.code # "" THEN a
  ELSE insertAdmitted(S, time, jwtEncoded, a.payload, a.registered)

\* the checks before the insert, and the insert: a rejection, or the stored
\* envelope
insertEnvelope(S, env, time, jwtEncoded, authIssuerId) ==
  afterAdmit(admitEnvelope(S, env, time, jwtEncoded, authIssuerId), S, time, jwtEncoded)

\* a faulty variant of dispatchEnvelope: the typed records made without the
\* id of the envelope
dispatchEnvelope_noId(a, time) ==
  IF a.code # "" THEN a
  ELSE resolveWithId(createEmbeddedClaimRecords(a.S, time, NoId, a.issuerDid, a.claim), a.id)

\* the typed records and edges of a stored envelope, then the return
dispatchEnvelope(a, time) ==
  IF a.code # "" THEN a
  ELSE resolveWithId(createEmbeddedClaimRecords(a.S, time, a.id, a.issuerDid, a.claim), a.id)

createWithClaimRecordResult(S, env, time, jwtEncoded, authIssuerId) ==
  dispatchEnvelope(insertEnvelope(S, env, time, jwtEncoded, authIssuerId), time)

SetStore(S) ==
  /\ jwt' = S.jwt
  /\ registration' = S.registration
  /\ event' = S.event
  /\ action' = S.action
  /\ tenure' = S.tenure
  /\ orgRole' = S.orgRole
  /\ vote' = S.vote
  /\ confirmation' = S.confirmation
  /\ network' = S.network
  /\ netCache' = S.netCache

\* the call settles: the store it left and what the caller got
settle(jwtEncoded, authIssuerId, r) ==
  /\ SetStore(r.S)
  /\ last' = [op |-> "createWithClaimRecord", jwtEncoded |-> jwtEncoded,
              authIssuerId |-> authIssuerId, code |-> r.code, id |-> r.id,
              embeddedError |-> r.embeddedError, recordings |-> r.recordings,
              dropped |-> DOMAIN netCache \ DOMAIN r.S.netCache]
  /\ UNCHANGED <<now, NODE_ENV>>

createWithClaimRecord(jwtEncoded, authIssuerId) ==
  /\ settle(jwtEncoded, authIssuerId,
            createWithClaimRecordResult(Store, NODE_ENV, now, jwtEncoded, authIssuerId))
  /\ UNCHANGED inflight

-----------------------------------------------------------------------------
(* An array payload.  createEmbeddedClaimRecords calls                     *)
(* createEmbeddedClaimRecord for every element without awaiting it: each   *)
(* element runs up to its first database call, and the elements then       *)
(* resume one database call at a time, in whatever order the calls         *)
(* complete.  Promise.all settles at the first rejection or when every     *)
(* element is done, and the submission returns in that same turn.          *)

\* one element of the array: where it stands, whether it has made a database
\* call, the event it works with, the rejection it ended with
Element(pc, touched, ev, err) == [pc |-> pc, touched |-> touched, ev |-> ev, err |-> err]

isJoinAction(claim) ==
  isContextSchemaOrg(Str(claim, "context")) /\ Str(claim, "type") = "JoinAction"

isAgreeAction(claim) ==
  isContextSchemaOrg(Str(claim, "context")) /\ Str(claim, "type") = "AgreeAction"

\* the claims an AgreeAction confirms, in the order of its loop
origClaimsOf(claim) ==
  IF ~Has(claim, "object") THEN <<>>
  ELSE IF isArray(claim.object) THEN claim.object.array
  ELSE <<claim.object>>

\* the confirmation an AgreeAction element is at: its place in the loop and,
\* once the lookups are done, the record it confirms
Confirming(n, r) ==
  <<[n |-> n, actionClaimId |-> r.actionClaimId, tenureClaimId |-> r.tenureClaimId,
     orgRoleClaimId |-> r.orgRoleClaimId]>>

\* the element up to its first await
startElement(claim) ==
  IF isAgreeAction(claim) THEN
    IF origClaimsOf(claim) = <<>> THEN Element("done", FALSE, <<>>, NoError)
    ELSE Element("createOneConfirmation", FALSE, Confirming(1, NotConfirmed(<<>>, NoError)), NoError)
  ELSE IF isJoinAction(claim) THEN
    IF ~Has(claim, "agent") THEN Element("rejected", FALSE, <<>>, TypeError)
    ELSE IF Str(claim.agent, "did") = ""
    THEN Element("rejected", FALSE, <<>>,
                 Reject("Attempted to record a JoinAction claim with no agent DID.", NoId))
    ELSE IF ~Has(claim, "event")
    THEN Element("rejected", FALSE, <<>>,
                 Reject("Attempted to record a JoinAction claim with no event info.", NoId))
    ELSE Element("eventsByParams", FALSE, <<>>, NoError)
  ELSE Element("createEmbeddedClaimRecord", FALSE, <<>>, NoError)

eventParamsOf(claim) ==
  [orgName |-> IF Has(claim.event, "organizer") THEN Str(claim.event.organizer, "name") ELSE "",
   name |-> Str(claim.event, "name"),
   startTime |-> Str(claim.event, "startTime")]

\* the store and the element after the element's next database call
Resumed(S, e) == [S |-> S, e |-> e]

afterEventsByParams(S, events) ==
  IF Len(events) = 0
  THEN Resumed(S, Element("eventInsert", TRUE, <<>>, NoError))
  ELSE Resumed(S, Element("actionClaimIdByDidEventId", TRUE, <<events[1]>>, NoError))

afterEventInsert(S1, params) ==
  Resumed(S1, Element("actionClaimInsert", TRUE,
                      <<[id |-> Len(S1.event), orgName |-> params.orgName,
                         name |-> params.name, startTime |-> params.startTime]>>,
                      NoError))

afterActionClaimId(S, e, actionClaimId) ==
  IF actionAlreadyExists(actionClaimId)
  THEN Resumed(S, Element("rejected", TRUE, e.ev,
         Reject("Same user attempted to record an action claim that already exists with ID ",
                actionClaimId)))
  ELSE Resumed(S, Element("actionClaimInsert", TRUE, e.ev, NoError))

afterWhole(r) ==
  Resumed(r.S, Element(IF r.err = NoError THEN "done" ELSE "rejected", TRUE, <<>>, r.err))

\* the loop of an AgreeAction goes on to its next claim, or is over
nextConfirmation(n, count) ==
  IF n < count
  THEN Element("createOneConfirmation", TRUE, Confirming(n + 1, NotConfirmed(<<>>, NoError)), NoError)
  ELSE Element("done", TRUE, <<>>, NoError)

\* createOneConfirmation after its lookups and its duplicate check, made on
\* the store as it was then: rejected (caught, console.log), or about to
\* insert
afterConfirmationLookups(S, n, r, count) ==
  IF r.err # NoError
  THEN Resumed(S, nextConfirmation(n, count))
  ELSE Resumed(S, Element("confirmationInsert", TRUE, Confirming(n, r), NoError))

\* the claim as createOneConfirmation canonicalizes it
origClaimStrOf(origClaim) ==
  canonicalize(IF Has(origClaim, "context") THEN origClaim
               ELSE [context |-> SchemaOrg] @@ origClaim)

resumeElement(S, time, jwtId, issuerDid, claim, e) ==
  IF e.pc = "createOneConfirmation"
  THEN afterConfirmationLookups(S, e.ev[1].n,
         createOneConfirmation(S, jwtId, issuerDid, origClaimsOf(claim)[e.ev[1].n]),
         Len(origClaimsOf(claim)))
  ELSE IF e.pc = "confirmationInsert"
  THEN Resumed(confirmationInsert(S, issuerDid, jwtId,
                                  origClaimStrOf(origClaimsOf(claim)[e.ev[1].n]),
                                  e.ev[1].actionClaimId, e.ev[1].tenureClaimId,
                                  e.ev[1].orgRoleClaimId),
               nextConfirmation(e.ev[1].n, Len(origClaimsOf(claim))))
  ELSE IF e.pc = "eventsByParams"
  THEN afterEventsByParams(S, eventsByParams(S, eventParamsOf(claim)))
  ELSE IF e.pc = "eventInsert"
  THEN afterEventInsert(eventInsert(S, eventParamsOf(claim).orgName, eventParamsOf(claim).name,
                                    eventParamsOf(claim).startTime),
                        eventParamsOf(claim))
  ELSE IF e.pc = "actionClaimIdByDidEventId"
  THEN afterActionClaimId(S, e, actionClaimIdByDidEventId(S, claim.agent.did, e.ev[1].id))
  ELSE IF e.pc = "actionClaimInsert"
  THEN Resumed(actionClaimInsert(S, issuerDid, claim.agent.did, jwtId, e.ev[1]),
               Element("done", TRUE, e.ev, NoError))
  ELSE afterWhole(createEmbeddedClaimRecord(S, time, jwtId, issuerDid, claim))

Finished(e) == e.pc \in {"done", "rejected"}

\* the rejection Promise.all settles with: the first one
firstRejection(el) ==
  el[SeqMin({i \in 1..Len(el) : el[i].pc = "rejected"})].err

\* an array dispatch whose submission has returned and whose elements have
\* all finished is over
retire(f) ==
  IF f.returned /\ \A i \in 1..Len(f.el) : Finished(f.el[i]) THEN <<>> ELSE <<f>>

\* the turn of the event loop ends: the submission returns if Promise.all
\* has settled, and the elements not finished stay in flight
endOfTurn(S, f, what) ==
  IF ~f.returned /\ \E i \in 1..Len(f.el) : f.el[i].pc = "rejected" THEN
    /\ settle(f.jwtEncoded, "",
              resolveWithId(Embedded(S, firstRejection(f.el), <<>>), f.jwtId))
    /\ inflight' = retire([f EXCEPT !.returned = TRUE])
  ELSE IF ~f.returned /\ \A i \in 1..Len(f.el) : f.el[i].pc = "done" THEN
    /\ settle(f.jwtEncoded, "",
              resolveWithId(recordSees(Embedded(S, NoError, <<>>), f.issuerDid, f.claim),
                            f.jwtId))
    /\ inflight' = <<>>
  ELSE
    /\ SetStore(S)
    /\ inflight' = retire(f)
    /\ last' = [op |-> what, jwtEncoded |-> f.jwtEncoded]
    /\ UNCHANGED <<now, NODE_ENV>>

\* the submission up to the first await of createEmbeddedClaimRecords
startDispatch(jwtEncoded, a) ==
  IF a.code # "" \/ ~isArray(a.claim)
  THEN settle(jwtEncoded, "", dispatchEnvelope(a, now)) /\ UNCHANGED inflight
  ELSE endOfTurn(a.S,
                 [jwtEncoded |-> jwtEncoded, jwtId |-> a.id, issuerDid |-> a.issuerDid,
                  claim |-> a.claim,
                  el |-> [i \in 1..Len(a.claim.array) |-> startElement(a.claim.array[i])],
                  returned |-> FALSE],
                 "createEmbeddedClaimRecords")

StartArray(jwtEncoded) ==
  /\ inflight = <<>>
  /\ startDispatch(jwtEncoded, insertEnvelope(Store, NODE_ENV, now, jwtEncoded, ""))

resumed(f, i, r) == endOfTurn(r.S, [f EXCEPT !.el[i] = r.e], "createEmbeddedClaimRecord")

\* element i of the array in flight resumes after the database call it awaits
ResumeElement(i) ==
  /\ inflight # <<>>
  /\ i \in 1..Len(inflight[1].el)
  /\ ~Finished(inflight[1].el[i])
  /\ resumed(inflight[1], i,
             resumeElement(Store, now, inflight[1].jwtId, inflight[1].issuerDid,
                           inflight[1].claim.array[i], inflight[1].el[i]))

\* a faulty variant of contentHashOf: the content hash written back as found
contentHashOf_asFound(idAndClaim) == idAndClaim.hashHex

\* "if (idAndClaim.hashHex === null)": a missing content hash is computed,
\* one that is set is written back as it is
contentHashOf(idAndClaim) ==
  IF idAndClaim.hashHex = NullHex
  THEN hashedClaimWithHashedDids(idAndClaim)
  ELSE idAndClaim.hashHex

\* the rows of the pass that "missed getting a hash" (logged as errors)
missingHash(idAndClaimArray) ==
  {idAndClaimArray[i].id : i \in {j \in 1..Len(idAndClaimArray) :
                                    idAndClaimArray[j].hashHex = NullHex}}

\* the write-back of one pass: each unchained row, in id order, gets the link
\* of the running chain value; a missing content hash is computed
RECURSIVE merkleEach(_, _, _)
merkleEach(S, idAndClaimArray, latestHashChainHex) ==
  IF idAndClaimArray = <<>> THEN S
  ELSE LET idAndClaim == Head(idAndClaimArray)
           nextHashChainHex == hashChain(latestHashChainHex, <<idAndClaim>>)
           hashHex == contentHashOf(idAndClaim)
       IN merkleEach(jwtSetMerkleHash(S, idAndClaim.id, hashHex, nextHashChainHex),
                     Tail(idAndClaimArray), nextHashChainHex)

\* a faulty variant of seedHexOf: every pass starts from the empty seed
seedHexOf_empty(hashHexArray) == EmptyHex

seedHexOf(hashHexArray) ==
  IF Len(hashHexArray) > 0 THEN hashHexArray[1].hashChainHex ELSE EmptyHex

\* a faulty variant of merkleUnmerkled: every row chained anew, the chained
\* ones included
merkleUnmerkled_allRows ==
  /\ SetStore(merkleEach(Store, jwt, seedHexOf(jwtLastMerkleHash(Store))))
  /\ last' = [op |-> "merkleUnmerkled", updates |-> Len(jwt), missed |-> missingHash(jwt)]
  /\ UNCHANGED <<now, NODE_ENV, inflight>>

\* one complete pass
merkleUnmerkled ==
  LET idAndClaimArray == jwtClaimsAndIdsUnmerkled(Store)
      hashHexArray == jwtLastMerkleHash(Store)
  IN /\ SetStore(merkleEach(Store, idAndClaimArray, seedHexOf(hashHexArray)))
     /\ last' = [op |-> "merkleUnmerkled", updates |-> Len(idAndClaimArray),
                 missed |-> missingHash(idAndClaimArray)]
     /\ UNCHANGED <<now, NODE_ENV, inflight>>

\* the write-back of a pass in which the writes of the rows in failed are
\* rejected by the store: every update is sent before any is awaited
\* (Promise.all), so the other rows get their links
RECURSIVE merkleEachBut(_, _, _, _)
merkleEachBut(S, idAndClaimArray, latestHashChainHex, failed) ==
  IF idAndClaimArray = <<>> THEN S
  ELSE LET idAndClaim == Head(idAndClaimArray)
           nextHashChainHex == hashChain(latestHashChainHex, <<idAndClaim>>)
           hashHex == contentHashOf(idAndClaim)
       IN merkleEachBut(IF idAndClaim.id \in failed THEN S
                        ELSE jwtSetMerkleHash(S, idAndClaim.id, hashHex, nextHashChainHex),
                        Tail(idAndClaimArray), nextHashChainHex, failed)

\* one pass in which the write of one row fails; the pass rejects
merkleUnmerkledWriteFails ==
  LET idAndClaimArray == jwtClaimsAndIdsUnmerkled(Store)
      hashHexArray == jwtLastMerkleHash(Store)
  IN \E k \in 1..Len(idAndClaimArray) :
       /\ SetStore(merkleEachBut(Store, idAndClaimArray, seedHexOf(hashHexArray),
                                 {idAndClaimArray[k].id}))
       /\ last' = [op |-> "merkleUnmerkled", updates |-> Len(idAndClaimArray),
                   missed |-> missingHash(idAndClaimArray),
                   failed |-> {idAndClaimArray[k].id}]
       /\ UNCHANGED <<now, NODE_ENV, inflight>>

-----------------------------------------------------------------------------
(* A submission step by step.  createWithClaimRecord awaits                *)
(* db.jwtCountByAfter and, later, db.jwtInsert: whatever other requests    *)
(* have sent to the database in between takes effect between the two.      *)
(* inflight holds the submissions that have been counted and have not      *)
(* inserted yet.                                                           *)

RemoveAt(s, k) == SubSeq(s, 1, k - 1) \o SubSeq(s, k + 1, Len(s))

\* the requests the server may be working on together
MaxSubmitting == 3

Counted(jwtEncoded, payload, registered) ==
  [jwtEncoded |-> jwtEncoded, payload |-> payload, registered |-> registered]

\* the submission after db.jwtCountByAfter: rejected, or waiting to insert
counted(jwtEncoded, a) ==
  IF a.code # ""
  THEN /\ settle(jwtEncoded, "", a)
       /\ UNCHANGED inflight
  ELSE /\ inflight' = Append(inflight, Counted(jwtEncoded, a.payload, a.registered))
       /\ last' = [op |-> "counted", jwtEncoded |-> jwtEncoded]
       /\ UNCHANGED <<jwt, registration, event, action, tenure, orgRole, vote,
                      confirmation, network, netCache, now, NODE_ENV>>

\* the call, up to the result of db.jwtCountByAfter
CountClaims(jwtEncoded) ==
  /\ Len(inflight) < MaxSubmitting
  /\ counted(jwtEncoded, admitEnvelope(Store, NODE_ENV, now, jwtEncoded, ""))

\* the rest of the call: the insert, the typed records, the return
InsertCounted(k) ==
  /\ settle(inflight[k].jwtEncoded, "",
            dispatchEnvelope(insertAdmitted(Store, now, inflight[k].jwtEncoded,
                                            inflight[k].payload, inflight[k].registered),
                             now))
  /\ inflight' = RemoveAt(inflight, k)

-----------------------------------------------------------------------------
(* A pass of merkleUnmerkled step by step.  The pass awaits                *)
(* db.jwtClaimsAndIdsUnmerkled, then db.jwtLastMerkleHash, computes every  *)
(* link and queues one db.jwtSetMerkleHash per row; nothing in the service *)
(* keeps a second call from starting while a first one is between two of   *)
(* these database calls.  inflight holds the passes that have started.     *)

\* the calls of merkleUnmerkled that may be under way together
MaxPasses == 2

Pass(pc, idAndClaimArray, updates) ==
  [pc |-> pc, idAndClaimArray |-> idAndClaimArray, updates |-> updates]

\* the updates of the loop: for each row read, its content hash and the link
\* of the running chain value
RECURSIVE pendingUpdates(_, _)
pendingUpdates(idAndClaimArray, latestHashChainHex) ==
  IF idAndClaimArray = <<>> THEN <<>>
  ELSE LET idAndClaim == Head(idAndClaimArray)
           nextHashChainHex == hashChain(latestHashChainHex, <<idAndClaim>>)
       IN <<[id |-> idAndClaim.id, hashHex |-> contentHashOf(idAndClaim),
             hashChainHex |-> nextHashChainHex]>>
          \o pendingUpdates(Tail(idAndClaimArray), nextHashChainHex)

\* the call, up to the result of db.jwtClaimsAndIdsUnmerkled
StartPass ==
  /\ Len(inflight) < MaxPasses
  /\ inflight' = Append(inflight, Pass("unmerkled", jwtClaimsAndIdsUnmerkled(Store), <<>>))
  /\ last' = [op |-> "startPass"]
  /\ UNCHANGED <<jwt, registration, event, action, tenure, orgRole, vote, confirmation,
                 network, netCache, now, NODE_ENV>>

\* the result of db.jwtLastMerkleHash and the loop; a pass that found no row
\* to chain resolves here
ReadLastMerkleHash ==
  \E k \in 1..Len(inflight) :
    /\ inflight[k].pc = "unmerkled"
    /\ LET updates == pendingUpdates(inflight[k].idAndClaimArray,
                                     seedHexOf(jwtLastMerkleHash(Store)))
       IN IF updates = <<>>
          THEN /\ inflight' = RemoveAt(inflight, k)
               /\ last' = [op |-> "passDone", pass |-> k]
          ELSE /\ inflight' = [inflight EXCEPT ![k] = Pass("updates", @.idAndClaimArray, updates)]
               /\ last' = [op |-> "readLastMerkleHash", pass |-> k]
    /\ UNCHANGED <<jwt, registration, event, action, tenure, orgRole, vote, confirmation,
                   network, netCache, now, NODE_ENV>>

\* one queued db.jwtSetMerkleHash takes effect; after the last one the pass
\* resolves
SetMerkleHash ==
  \E k \in 1..Len(inflight) :
    /\ inflight[k].pc = "updates"
    /\ LET update == Head(inflight[k].updates)
       IN SetStore(jwtSetMerkleHash(Store, update.id, update.hashHex, update.hashChainHex))
    /\ IF Len(inflight[k].updates) = 1
       THEN /\ inflight' = RemoveAt(inflight, k)
            /\ last' = [op |-> "passDone", pass |-> k]
       ELSE /\ inflight' = [inflight EXCEPT ![k].updates = Tail(@)]
            /\ last' = [op |-> "setMerkleHash", pass |-> k]
    /\ UNCHANGED <<now, NODE_ENV>>

-----------------------------------------------------------------------------
(* ActionService (the service that reads through the network cache)        *)

\* the requester's visible set: the cached one, or the stored one, cached now
lookupNetwork(S, requesterDid) ==
  LET cached == netCache_get(S.netCache, requesterDid)
  IN IF cached # <<>>
     THEN [objects |-> cached[1], netCache |-> S.netCache]
     ELSE LET objects == getNetwork(S, requesterDid)
          IN [objects |-> objects, netCache |-> netCache_set(S.netCache, requesterDid, objects)]

\* a faulty variant of hideAgent: the record returned as stored
hideAgent_never(objects, actionClaim) == actionClaim

hideAgent(objects, actionClaim) ==
  IF actionClaim.agentDid \notin objects
  THEN [actionClaim EXCEPT !.agentDid = HIDDEN_TEXT]
  ELSE actionClaim

\* <<the record>>, or <<>> for null.  The history keeps whether the call
\* before this one was a submission that dropped the requester's cached set.
ActionService_byId(id, requesterDid) ==
  LET actionClaim == actionClaimById(Store, id)
      invalidated == last.op = "createWithClaimRecord" /\ requesterDid \in last.dropped
  IN
  /\ IF actionClaim = <<>>
     THEN /\ last' = [op |-> "ActionService.byId", id |-> id,
                      requesterDid |-> requesterDid, result |-> <<>>,
                      invalidated |-> invalidated]
          /\ netCache' = netCache
     ELSE LET n == lookupNetwork(Store, requesterDid)
          IN /\ last' = [op |-> "ActionService.byId", id |-> id,
                         requesterDid |-> requesterDid,
                         result |-> <<hideAgent(n.objects, actionClaim[1])>>,
                         invalidated |-> invalidated]
             /\ netCache' = n.netCache
  /\ UNCHANGED <<jwt, registration, event, action, tenure, orgRole, vote,
                 confirmation, network, now, NODE_ENV, inflight>>

\* db.actionClaimsByParams: the Action rows that match every given field
actionClaimsByParams(S, params) ==
  LET Test(r) == /\ (Has(params, "rowid") => r.id = params.rowid)
                 /\ (Has(params, "agentDid") => r.agentDid = params.agentDid)
  IN SelectSeq(S.action, Test)

\* the dates of the model, in order
Dates == <<"2018-01-01", "2018-12-29", "2019-01-01">>

DateIndex(d) == CHOOSE i \in 1..Len(Dates) : Dates[i] = d

\* db.retrieveActionClaimsAndConfirmationsForEventsSince: each action of an
\* event starting at or after the date, joined with its confirmations; an
\* action with no confirmation comes with none
retrieveActionClaimsAndConfirmationsForEventsSince(S, dateTime) ==
  LET Since(r) == DateIndex(r.eventStartTime) >= DateIndex(dateTime)
      actions == SelectSeq(S.action, Since)
  IN [i \in 1..Len(actions) |->
        LET Confirms(c) == c.actionRowId = actions[i].id
        IN [action |-> actions[i], confirmations |-> SelectSeq(S.confirmation, Confirms)]]

\* the ActionService of action.service.js: byId(id) hands on the stored row
ActionService_byId_asStored(id) ==
  /\ last' = [op |-> "ActionService.byId(id)", id |-> id,
              result |-> actionClaimById(Store, id)]
  /\ UNCHANGED <<tables, netCache, now, NODE_ENV, inflight>>

\* params.id is renamed to rowid
queryParams(params) ==
  IF Has(params, "id") /\ params.id # NoId
  THEN [k \in (DOMAIN params \ {"id"}) \cup {"rowid"} |->
          IF k = "rowid" THEN params.id ELSE params[k]]
  ELSE params

ActionService_byQuery(params) ==
  /\ last' = [op |-> "ActionService.byQuery", params |-> params,
              result |-> actionClaimsByParams(Store, queryParams(params))]
  /\ UNCHANGED <<tables, netCache, now, NODE_ENV, inflight>>

\* the joined rows grouped by the agent of the action: for each agent its
\* actions, each with its confirmations
groupByAgentDid(acacs) ==
  LET agents == {acacs[i].action.agentDid : i \in 1..Len(acacs)}
  IN [did \in agents |->
        LET OfAgent(acac) == acac.action.agentDid = did IN SelectSeq(acacs, OfAgent)]

ActionService_getActionClaimsAndConfirmationsForEventsSince(dateTime) ==
  /\ last' = [op |-> "ActionService.getActionClaimsAndConfirmationsForEventsSince",
              dateTime |-> dateTime,
              result |-> groupByAgentDid(
                           retrieveActionClaimsAndConfirmationsForEventsSince(Store, dateTime))]
  /\ UNCHANGED <<tables, netCache, now, NODE_ENV, inflight>>

\* db.jwtsByParams: the envelopes that match every given field
jwtsByParams(S, params) ==
  LET Test(r) == /\ (Has(params, "issuer") => r.issuer = params.issuer)
                 /\ (Has(params, "claimType") => r.claimType = params.claimType)
  IN SelectSeq(S.jwt, Test)

\* a faulty variant of byId_result: the stored row handed on
byId_result_row(jwtRec) == jwtRec

\* what byId returns of an envelope
byId_result(jwtRec) ==
  [id |-> jwtRec.id, issuedAt |-> jwtRec.issuedAt, issuer |-> jwtRec.issuer,
   subject |-> jwtRec.subject, claimContext |-> jwtRec.claimContext,
   claimType |-> jwtRec.claimType, claim |-> JSON_parse(jwtRec.claim)]

\* what byQuery returns of each envelope
byQuery_thisOne(j) ==
  [id |-> j.id, issuer |-> j.issuer, issuedAt |-> j.issuedAt, subject |-> j.subject,
   claimContext |-> j.claimContext, claimType |-> j.claimType,
   claim |-> JSON_parse(j.claim)]

returned(op, id, jwtRec) ==
  /\ last' = [op |-> op, id |-> id, result |-> jwtRec]
  /\ UNCHANGED <<tables, netCache, now, NODE_ENV, inflight>>

\* <<the summary>>, or <<>> for null
JwtService_byId(id, requesterDid) ==
  IF jwtById(Store, id) # <<>>
  THEN returned("JwtService.byId", id, <<byId_result(jwtById(Store, id)[1])>>)
  ELSE returned("JwtService.byId", id, <<>>)

JwtService_byQuery(params) ==
  /\ last' = [op |-> "JwtService.byQuery", params |-> params,
              result |-> [i \in 1..Len(jwtsByParams(Store, params)) |->
                            byQuery_thisOne(jwtsByParams(Store, params)[i])]]
  /\ UNCHANGED <<tables, netCache, now, NODE_ENV, inflight>>

\* <<the stored row>>, or <<>> for null
JwtService_fullJwtById(id, requesterDid) ==
  IF jwtById(Store, id) # <<>>
  THEN returned("JwtService.fullJwtById", id, jwtById(Store, id))
  ELSE returned("JwtService.fullJwtById", id, <<>>)

\* JavaScript's value || fallback on a nullable number: null and 0 are falsy
orDefault(value, fallback) == IF value = NoNum \/ value = 0 THEN fallback ELSE value

rateLimits(S, time, requestorDid, registered) ==
  [nextMonthBeginDateTime |-> StartOfMonth(time) + MonthLen,
   nextWeekBeginDateTime |-> StartOfWeek(time) + WeekLen,
   doneClaimsThisWeek |-> jwtCountByAfter(S, requestorDid, StartOfWeek(time)),
   doneRegistrationsThisMonth |-> registrationCountByAfter(S, requestorDid, StartOfMonth(time)),
   maxClaimsPerWeek |-> orDefault(registered.maxClaims, DEFAULT_MAX_CLAIMS_PER_WEEK),
   maxRegistrationsPerMonth |-> orDefault(registered.maxRegs, DEFAULT_MAX_REGISTRATIONS_PER_MONTH)]

\* <<the limits>>, or <<>> with the error code of the rejection
getRateLimits(requestorDid) ==
  /\ last' = IF registrationByDid(Store, requestorDid) # <<>>
             THEN [op |-> "JwtService.getRateLimits", requestorDid |-> requestorDid,
                   code |-> "",
                   result |-> <<rateLimits(Store, now, requestorDid,
                                           registrationByDid(Store, requestorDid)[1])>>]
             ELSE [op |-> "JwtService.getRateLimits", requestorDid |-> requestorDid,
                   code |-> "UNREGISTERED_USER", result |-> <<>>]
  /\ UNCHANGED <<tables, netCache, now, NODE_ENV, inflight>>

\* time passes
Tick ==
  /\ now < MaxTime
  /\ now' = now + 1
  /\ UNCHANGED <<jwt, registration, event, action, tenure, orgRole, vote,
                 confirmation, network, netCache, NODE_ENV, inflight, last>>

-----------------------------------------------------------------------------
(* The initial store: empty tables and the registrations seeded out of     *)
(* band, with the weekly maximums the administrator set.                   *)

SeedRegistration(maxClaimsA, maxClaimsB) ==
  registrationInsert(
    registrationInsert([registration |-> <<>>],
                       [did |-> "did:A", maxClaims |-> maxClaimsA]),
    [did |-> "did:B", maxClaims |-> maxClaimsB]).registration

InitWith(seed, env) ==
  /\ jwt = <<>>
  /\ registration = seed
  /\ event = <<>>
  /\ action = <<>>
  /\ tenure = <<>>
  /\ orgRole = <<>>
  /\ vote = <<>>
  /\ confirmation = <<>>
  /\ network = {}
  /\ netCache = <<>>
  /\ now = 0
  /\ NODE_ENV = env
  /\ inflight = <<>>
  /\ last = [op |-> "start"]

Token(iss, claim) == [verifies |-> TRUE, payload |-> [iss |-> iss, claim |-> claim]]
TokenNoClaim(iss) == [verifies |-> TRUE, payload |-> [iss |-> iss]]
BadToken == [verifies |-> FALSE, payload |-> [iss |-> "did:A", claim |-> JoinAction("did:C")]]

-----------------------------------------------------------------------------
(* Spec: submissions and the passing of time.  did:A has the default       *)
(* weekly maximum, did:B one set by the administrator (0 or 1), did:C is   *)
(* not registered.                                                         *)

Tokens ==
  {Token(d, JoinAction("did:C")) : d \in DIDs}
  \cup {Token(d, AgreeAction(JoinAction("did:C"))) : d \in {"did:A", "did:B"}}
  \cup {Token("did:A", JoinActionNoAgentDid), TokenNoClaim("did:A"), BadToken}

Init ==
  \E m \in {0, 1}, env \in {"production", "test-local"} :
    InitWith(SeedRegistration(NoNum, m), env)

Submit ==
  \E t \in Tokens :
    /\ createWithClaimRecord(t, "")
    /\ Len(jwt') <= MaxJwt

Next ==
  \/ Submit
  \/ Tick

Spec == Init /\ [][Next]_vars

-----------------------------------------------------------------------------
(* SpecConfirm: claims and their confirmations.  The administrator has     *)
(* raised the weekly maximum of did:A and did:B; did:A records the targets *)
(* and both confirm them.                                                  *)

MaxConfirmJwt == 3

ConfirmTargets ==
  {JoinAction("did:C"), Tenure("did:C"), OrgRoleClaim("did:C"), PersonClaim("did:C")}

ConfirmTokens ==
  {Token("did:A", c) : c \in ConfirmTargets \ {PersonClaim("did:C")}}
  \cup {Token(d, AgreeAction(c)) : d \in {"did:A", "did:B"}, c \in ConfirmTargets}

InitConfirm ==
  InitWith(SeedRegistration(MaxConfirmJwt + 1, MaxConfirmJwt + 1), "production")

SubmitConfirm ==
  \E t \in ConfirmTokens :
    /\ createWithClaimRecord(t, "")
    /\ Len(jwt') <= MaxConfirmJwt

NextConfirm == SubmitConfirm

SpecConfirm == InitConfirm /\ [][NextConfirm]_vars

-----------------------------------------------------------------------------
(* SpecRead: submissions of did:A and did:B that name did:A or did:C, and  *)
(* reads of an action by any requester.                                    *)

ReadTokens == {Token(d, JoinAction(a)) : d \in {"did:A", "did:B"}, a \in {"did:A", "did:C"}}

InitRead == InitWith(SeedRegistration(NoNum, NoNum), "production")

SubmitRead ==
  \E t \in ReadTokens :
    /\ createWithClaimRecord(t, "")
    /\ Len(jwt') <= MaxJwt

Read ==
  \E id \in 1..(Len(action) + 1), requesterDid \in DIDs :
    ActionService_byId(id, requesterDid)

NextRead ==
  \/ SubmitRead
  \/ Read

SpecRead == InitRead /\ [][NextRead]_vars

-----------------------------------------------------------------------------
(* SpecEvent: JoinAction submissions, one after the other, by two issuers  *)
(* for two agents at two events of the same organizer and name.            *)

MaxEventJwt == 3

Event2 == [Event1 EXCEPT !.startTime = "2019-01-05"]

JoinActionAt(agentDid, ev) == [JoinAction(agentDid) EXCEPT !.event = ev]

EventTokens ==
  {Token(d, JoinActionAt(a, ev)) :
     d \in {"did:A", "did:B"}, a \in {"did:A", "did:C"}, ev \in {Event1, Event2}}

InitEvent == InitWith(SeedRegistration(NoNum, NoNum), "production")

SubmitEvent ==
  \E t \in EventTokens :
    /\ createWithClaimRecord(t, "")
    /\ Len(jwt') <= MaxEventJwt

NextEvent == SubmitEvent

SpecEvent == InitEvent /\ [][NextEvent]_vars

-----------------------------------------------------------------------------
(* SpecChain: submissions interleaved with complete passes of              *)
(* merkleUnmerkled.                                                        *)

ChainTokens ==
  {Token(d, c) : d \in {"did:A", "did:B"}, c \in {JoinAction("did:C"), PersonClaim("did:A")}}

InitChain == InitWith(SeedRegistration(NoNum, NoNum), "production")

SubmitChain ==
  \E t \in ChainTokens :
    /\ createWithClaimRecord(t, "")
    /\ Len(jwt') <= MaxJwt

NextChain ==
  \/ SubmitChain
  \/ merkleUnmerkled

SpecChain == InitChain /\ [][NextChain]_vars

-----------------------------------------------------------------------------
(* SpecHeal: a store that holds envelopes written before content hashes   *)
(* were kept (rows with a null content hash, none of them chained), then   *)
(* submissions and complete passes of merkleUnmerkled.                     *)

MaxHealJwt == 3

\* an envelope row as an earlier version of the service left it
LegacyEnvelope(S, claim, hashed) ==
  LET claimStr == canonicalize(claim)
      entity == buildJwtEntity(S, 0, [iss |-> "did:A", claim |-> claim], claim, claimStr,
                               base64url_encode(claimStr), Token("did:A", claim))
  IN IF hashed THEN entity ELSE [entity EXCEPT !.hashHex = NullHex]

LegacyStores ==
  {<<>>}
  \cup {<<LegacyEnvelope([jwt |-> <<>>], PersonClaim("did:A"), h)>> : h \in BOOLEAN}
  \cup {LET first == LegacyEnvelope([jwt |-> <<>>], PersonClaim("did:A"), h[1])
        IN <<first, LegacyEnvelope([jwt |-> <<first>>], PersonClaim("did:C"), h[2])>> :
          h \in [1..2 -> BOOLEAN]}

InitHeal ==
  /\ jwt \in LegacyStores
  /\ registration = SeedRegistration(NoNum, NoNum)
  /\ event = <<>>
  /\ action = <<>>
  /\ tenure = <<>>
  /\ orgRole = <<>>
  /\ vote = <<>>
  /\ confirmation = <<>>
  /\ network = {}
  /\ netCache = <<>>
  /\ now = 0
  /\ NODE_ENV = "production"
  /\ inflight = <<>>
  /\ last = [op |-> "start"]

SubmitHeal ==
  \E t \in ChainTokens :
    /\ createWithClaimRecord(t, "")
    /\ Len(jwt') <= MaxHealJwt

NextHeal ==
  \/ SubmitHeal
  \/ merkleUnmerkled

SpecHeal == InitHeal /\ [][NextHeal]_vars

-----------------------------------------------------------------------------
(* SpecPass: submissions, and calls of merkleUnmerkled that may be made    *)
(* while an earlier call has not resolved.                                 *)

MaxPassJwt == 2

InitPass == InitWith(SeedRegistration(NoNum, NoNum), "production")

SubmitPass ==
  \E t \in ChainTokens :
    /\ createWithClaimRecord(t, "")
    /\ Len(jwt') <= MaxPassJwt

NextPass ==
  \/ SubmitPass
  \/ StartPass
  \/ ReadLastMerkleHash
  \/ SetMerkleHash

SpecPass == InitPass /\ [][NextPass]_vars

-----------------------------------------------------------------------------
(* SpecRace: submissions of did:A and did:B within one week, each of which *)
(* may be counted while others are between their count and their insert.   *)

MaxRaceJwt == 5

RaceTokens == {Token(d, PersonClaim("did:C")) : d \in {"did:A", "did:B"}}

InitRace == InitWith(SeedRegistration(NoNum, NoNum), "production")

SubmitRace ==
  \E t \in RaceTokens :
    /\ Len(jwt) < MaxRaceJwt
    /\ CountClaims(t)

ResumeRace == \E k \in 1..Len(inflight) : InsertCounted(k)

NextRace ==
  \/ SubmitRace
  \/ ResumeRace

SpecRace == InitRace /\ [][NextRace]_vars

-----------------------------------------------------------------------------
(* SpecSeed: a store with no Registration row, or with the row of did:A    *)
(* inserted directly (db.registrationInsert, as the test setup does), and  *)
(* submissions by did:A and by identities that are not seeded.             *)

MaxSeedJwt == 3

SeedTokens ==
  {Token("did:A", RegisterAction("did:A", "did:C")),
   Token("did:C", RegisterAction("did:C", "did:D")),
   Token("did:D", RegisterAction("did:D", "did:D")),
   Token("did:D", PersonClaim("did:D")),
   Token("did:C", PersonClaim("did:C")),
   Token("did:A", PersonClaim("did:A"))}

InitSeed ==
  \E env \in {"production", "test-local"} :
    \E seed \in {<<>>, registrationInsert([registration |-> <<>>], [did |-> "did:A"]).registration} :
      InitWith(seed, env)

SubmitSeed ==
  \E t \in SeedTokens :
    /\ createWithClaimRecord(t, "")
    /\ Len(jwt') <= MaxSeedJwt

NextSeed == SubmitSeed

SpecSeed == InitSeed /\ [][NextSeed]_vars

-----------------------------------------------------------------------------
(* canonicalize on the text of a claim.  Elsewhere a claim is a record,    *)
(* which has no key order, and its canonical string is the tagged record.  *)
(* Here a JSON value keeps the order of its keys, a string is the sequence *)
(* of its characters, and the canonical string is written out: the keys of *)
(* every object sorted by code unit, strings as JSON.stringify writes them. *)

JStr(chars) == [t |-> "str", s |-> chars]
JArr(items) == [t |-> "arr", a |-> items]
JObj(members) == [t |-> "obj", m |-> members]
Member(key, value) == [k |-> key, v |-> value]

\* the characters in use, in the order of their code units
CodeUnits == <<"\"", ",", ":", "[", "\\", "]", "a", "b", "c", "{", "}">>

charCodeAt(c) == CHOOSE i \in 1..Len(CodeUnits) : CodeUnits[i] = c

\* the default comparison of Array.prototype.sort on strings
RECURSIVE lessThan(_, _)
lessThan(x, y) ==
  IF x = <<>> THEN y # <<>>
  ELSE IF y = <<>> THEN FALSE
  ELSE IF Head(x) = Head(y) THEN lessThan(Tail(x), Tail(y))
  ELSE charCodeAt(Head(x)) < charCodeAt(Head(y))

RECURSIVE insertSorted(_, _)
insertSorted(member, sorted) ==
  IF sorted = <<>> THEN <<member>>
  ELSE IF lessThan(member.k, Head(sorted).k) THEN <<member>> \o sorted
  ELSE <<Head(sorted)>> \o insertSorted(member, Tail(sorted))

\* a faulty variant of sortedMembers: the members in the order given
sortedMembers_asGiven(members) == members

\* "Object.keys(object).sort()"
RECURSIVE sortedMembers(_)
sortedMembers(members) ==
  IF members = <<>> THEN <<>>
  ELSE insertSorted(Head(members), sortedMembers(Tail(members)))

RECURSIVE escaped(_)
escaped(chars) ==
  IF chars = <<>> THEN <<>>
  ELSE (IF Head(chars) \in {"\"", "\\"} THEN <<"\\", Head(chars)>> ELSE <<Head(chars)>>)
       \o escaped(Tail(chars))

\* JSON.stringify of a string: quoted, quotes and backslashes escaped
JSON_stringify(chars) == <<"\"">> \o escaped(chars) \o <<"\"">>

\* the canonical string of a JSON value
RECURSIVE serialize(_)
RECURSIVE serializeItems(_)
RECURSIVE serializeMembers(_)
serializeItems(items) ==
  IF items = <<>> THEN <<>>
  ELSE serialize(Head(items))
       \o (IF Tail(items) = <<>> THEN <<>> ELSE <<",">> \o serializeItems(Tail(items)))

serializeMembers(members) ==
  IF members = <<>> THEN <<>>
  ELSE JSON_stringify(Head(members).k) \o <<":">> \o serialize(Head(members).v)
       \o (IF Tail(members) = <<>> THEN <<>> ELSE <<",">> \o serializeMembers(Tail(members)))

serialize(object) ==
  IF object.t = "str" THEN JSON_stringify(object.s)
  ELSE IF object.t = "arr" THEN <<"[">> \o serializeItems(object.a) \o <<"]">>
  ELSE <<"{">> \o serializeMembers(sortedMembers(object.m)) \o <<"}">>

\* JSON.parse of a text that holds strings, arrays and objects: the value
\* read and the text after it
Parsed(value, rest) == [v |-> value, rest |-> rest]

\* the characters of a string, read from after its opening quote
RECURSIVE parseChars(_)
parseChars(text) ==
  IF Head(text) = "\"" THEN Parsed(<<>>, Tail(text))
  ELSE IF Head(text) = "\\"
       THEN Parsed(<<text[2]>> \o parseChars(Tail(Tail(text))).v,
                   parseChars(Tail(Tail(text))).rest)
       ELSE Parsed(<<Head(text)>> \o parseChars(Tail(text)).v, parseChars(Tail(text)).rest)

RECURSIVE parseValue(_)
RECURSIVE parseItems(_, _)
RECURSIVE parseMembers(_, _)
RECURSIVE parseMember(_, _, _)
parseItems(text, items) ==
  IF Head(text) = "]" THEN Parsed(JArr(items), Tail(text))
  ELSE IF Head(text) = "," THEN parseItems(Tail(text), items)
  ELSE parseItems(parseValue(text).rest, Append(items, parseValue(text).v))

\* the member whose key has been read: the colon, then its value
parseMember(key, text, members) ==
  parseMembers(parseValue(Tail(text)).rest,
               Append(members, Member(key, parseValue(Tail(text)).v)))

parseMembers(text, members) ==
  IF Head(text) = "}" THEN Parsed(JObj(members), Tail(text))
  ELSE IF Head(text) = "," THEN parseMembers(Tail(text), members)
  ELSE parseMember(parseChars(Tail(text)).v, parseChars(Tail(text)).rest, members)

parseValue(text) ==
  IF Head(text) = "\"" THEN Parsed(JStr(parseChars(Tail(text)).v), parseChars(Tail(text)).rest)
  ELSE IF Head(text) = "[" THEN parseItems(Tail(text), <<>>)
  ELSE parseMembers(Tail(text), <<>>)

JSON_parse_text(text) == parseValue(text).v

\* one application of canonicalize, and the one before it
Canonicalized(object, claimStr) == [object |-> object, claimStr |-> claimStr]

canonicalizeClaim(object) ==
  /\ last' = [op |-> "canonicalize", object |-> object, claimStr |-> serialize(object),
              previous |-> IF last.op = "canonicalize"
                           THEN <<Canonicalized(last.object, last.claimStr)>>
                           ELSE <<>>]
  /\ UNCHANGED <<jwt, registration, event, action, tenure, orgRole, vote, confirmation,
                 network, netCache, now, NODE_ENV, inflight>>

-----------------------------------------------------------------------------
(* SpecCanon: canonicalize applied to claims that differ in the order of   *)
(* their keys, at both levels, and in one value.                           *)

\* the orders in which a set of members can be written
Orderings(members) ==
  {f \in [1..Cardinality(members) -> members] :
     \A i, j \in 1..Cardinality(members) : f[i] = f[j] => i = j}

InnerObjects ==
  {JObj(m) : m \in Orderings({Member(<<"b">>, JStr(<<"a", "\"">>)),
                              Member(<<"a">>, JStr(<<"c", "\\">>))})}

CanonClaims ==
  {JObj(m) : m \in UNION {Orderings({Member(<<"b">>, inner),
                                     Member(<<"a">>, JStr(<<c>>)),
                                     Member(<<"a", "b">>, JArr(<<JStr(<<"a">>), inner>>))}) :
                            inner \in InnerObjects, c \in {"b", "c"}}}

InitCanon == InitWith(<<>>, "production")

Canonicalize == \E object \in CanonClaims : canonicalizeClaim(object)

NextCanon == Canonicalize

SpecCanon == InitCanon /\ [][NextCanon]_vars

-----------------------------------------------------------------------------
(* SpecIssuer: submissions for which the caller names the issuer it        *)
(* expects, or none.                                                       *)

IssuerTokens ==
  {Token(d, JoinAction("did:C")) : d \in DIDs} \cup {Token("did:A", Tenure("did:C")), BadToken}

AuthIssuerIds == {""} \cup DIDs

SubmitIssuer ==
  \E t \in IssuerTokens, authIssuerId \in AuthIssuerIds :
    createWithClaimRecord(t, authIssuerId) /\ Len(jwt') <= MaxJwt

NextIssuer == SubmitIssuer

SpecIssuer == Init /\ [][NextIssuer]_vars

-----------------------------------------------------------------------------
(* SpecReg: registration claims and the passing of time.  did:A and did:B  *)
(* are seeded with no epoch and the default maximums; did:C and did:D can  *)
(* only be registered by a claim.                                          *)

RegTokens ==
  {Token("did:A", RegisterAction(agent, participant)) :
     agent \in {"did:A", "did:B"}, participant \in {"did:C", "did:D"}}
  \cup {Token("did:C", RegisterAction("did:C", "did:D"))}

InitReg ==
  \E env \in {"production", "test-local"} : InitWith(SeedRegistration(NoNum, NoNum), env)

SubmitReg == \E t \in RegTokens : createWithClaimRecord(t, "") /\ Len(jwt') <= MaxJwt

NextReg == SubmitReg \/ Tick

SpecReg == InitReg /\ [][NextReg]_vars

-----------------------------------------------------------------------------
(* SpecOther: submissions of claims the dispatch has no branch for, next   *)
(* to a JoinAction it has one for.                                         *)

\* a JoinAction under a context that is not schema.org
JoinActionOtherContext == [JoinAction("did:C") EXCEPT !.context = EndorserCh]

\* a Tenure under schema.org, where the dispatch knows it under endorser.ch
TenureOtherContext == [Tenure("did:C") EXCEPT !.context = SchemaOrg]

\* a claim with neither '@context' nor '@type'
Untyped == [identifier |-> "did:C"]

OtherClaims == {PersonClaim("did:C"), JoinActionOtherContext, TenureOtherContext, Untyped}

OtherTokens ==
  {Token(d, c) : d \in {"did:A", "did:B"}, c \in OtherClaims}
  \cup {Token("did:A", JoinAction("did:C"))}

SubmitOther == \E t \in OtherTokens : createWithClaimRecord(t, "") /\ Len(jwt') <= MaxJwt

NextOther == SubmitOther

SpecOther == Init /\ [][NextOther]_vars

-----------------------------------------------------------------------------
(* SpecQuery: submissions of JoinActions and the reads of ActionService    *)
(* that take no requester.                                                 *)

QueryParams == {[id |-> 1], [agentDid |-> "did:C"], [agentDid |-> "did:A"]}

ById == \E id \in 1..(Len(action) + 1) : ActionService_byId_asStored(id)

ByQuery == \E params \in QueryParams : ActionService_byQuery(params)

EventsSince ==
  \E dateTime \in {"2018-01-01", "2019-01-01"} :
    ActionService_getActionClaimsAndConfirmationsForEventsSince(dateTime)

NextQuery == SubmitRead \/ ById \/ ByQuery \/ EventsSince

SpecQuery == InitRead /\ [][NextQuery]_vars

-----------------------------------------------------------------------------
(* SpecJwtRead: submissions and the chaining of the envelopes, and the     *)
(* reads of JwtService.                                                    *)

JwtQueryParams == {[issuer |-> "did:A"], [claimType |-> "JoinAction"], [claimType |-> "Person"]}

JwtById ==
  \E id \in 1..(Len(jwt) + 1), requesterDid \in {"did:B"} : JwtService_byId(id, requesterDid)

JwtByQuery == \E params \in JwtQueryParams : JwtService_byQuery(params)

FullJwtById ==
  \E id \in 1..(Len(jwt) + 1), requesterDid \in {"did:B"} :
    JwtService_fullJwtById(id, requesterDid)

NextJwtRead == SubmitChain \/ merkleUnmerkled \/ JwtById \/ JwtByQuery \/ FullJwtById

SpecJwtRead == InitChain /\ [][NextJwtRead]_vars

-----------------------------------------------------------------------------
(* SpecLimits: did:B is seeded with the maximums the administrator set, or *)
(* none; it submits claims and registrations, and the limits are read.     *)

Overrides == {NoNum, 0, 1}

SeedLimits(maxClaimsB, maxRegsB) ==
  registrationInsert(
    registrationInsert([registration |-> <<>>], [did |-> "did:A"]),
    [did |-> "did:B", maxClaims |-> maxClaimsB, maxRegs |-> maxRegsB]).registration

InitLimits ==
  \E maxClaimsB \in Overrides, maxRegsB \in Overrides :
    InitWith(SeedLimits(maxClaimsB, maxRegsB), "production")

LimitTokens ==
  {Token("did:B", JoinAction("did:C")), Token("did:B", RegisterAction("did:B", "did:C"))}

SubmitLimits == \E t \in LimitTokens : createWithClaimRecord(t, "") /\ Len(jwt') <= MaxJwt

RateLimits == \E requestorDid \in DIDs : getRateLimits(requestorDid)

NextLimits == SubmitLimits \/ RateLimits

SpecLimits == InitLimits /\ [][NextLimits]_vars

-----------------------------------------------------------------------------
(* SpecVerify: tokens with and without an expiry and a valid signature are *)
(* decoded and submitted, in production, test and test-local mode, while   *)
(* time passes.                                                            *)

MaxVerifyJwt == 1

Expiring(token, exp) == [token EXCEPT !.payload = [iss |-> @.iss, claim |-> @.claim, exp |-> exp]]

Signed(token, verifies) == [verifies |-> verifies, payload |-> token.payload]

\* a token whose header says what test-local mode answers
TestHeaderToken ==
  [verifies |-> FALSE, header |-> [typ |-> "test"],
   payload |-> [iss |-> "did:A", claim |-> JoinAction("did:C")]]

VerifyTokens ==
  {Signed(Token("did:A", JoinAction("did:C")), v) : v \in BOOLEAN}
  \cup {Signed(Expiring(Token("did:A", JoinAction("did:C")), exp), v) :
          exp \in {0, 1, MaxTime + 1}, v \in BOOLEAN}
  \cup {TestHeaderToken, Token("did:C", JoinAction("did:C"))}

InitVerify ==
  \E env \in {"production", "test", "test-local"} :
    InitWith(SeedRegistration(NoNum, NoNum), env)

\* decodeAndVerifyJwt on its own
Decode ==
  \E t \in VerifyTokens :
    /\ last' = [op |-> "decodeAndVerifyJwt", jwt |-> t,
                result |-> decodeAndVerifyJwt(NODE_ENV, now, t)]
    /\ UNCHANGED <<tables, netCache, now, NODE_ENV, inflight>>

SubmitVerify ==
  \E t \in VerifyTokens : createWithClaimRecord(t, "") /\ Len(jwt') <= MaxVerifyJwt

NextVerify == Decode \/ SubmitVerify \/ Tick

SpecVerify == InitVerify /\ [][NextVerify]_vars

-----------------------------------------------------------------------------
(* SpecUnrecorded: did:A records its own JoinAction and Tenure, and did:B  *)
(* confirms claims about did:A and about did:C, recorded or not.           *)

UnrecordedTokens ==
  {Token("did:A", JoinAction("did:A")), Token("did:A", Tenure("did:A"))}
  \cup {Token("did:B", AgreeAction(c)) :
          c \in {JoinAction("did:A"), JoinAction("did:C"), Tenure("did:C"),
                 OrgRoleClaim("did:C")}}

SubmitUnrecorded ==
  \E t \in UnrecordedTokens : createWithClaimRecord(t, "") /\ Len(jwt') <= MaxConfirmJwt

NextUnrecorded == SubmitUnrecorded

SpecUnrecorded == InitConfirm /\ [][NextUnrecorded]_vars

-----------------------------------------------------------------------------
(* SpecArray: submissions by did:A whose payload is an array of two        *)
(* claims.                                                                 *)

MaxArrayJwt == 2
MaxArrayLen == 2

ArrayElements ==
  {JoinAction("did:C"), JoinActionNoAgentDid, Tenure("did:C")}

ArrayTokens ==
  {Token("did:A", JsonArray(<<c1, c2>>)) : c1 \in ArrayElements, c2 \in ArrayElements}
  \cup {Token("did:C", JsonArray(<<JoinAction("did:C"), JoinAction("did:C")>>))}

InitArray ==
  \E env \in {"production", "test-local"} : InitWith(SeedRegistration(NoNum, NoNum), env)

SubmitArray == \E t \in ArrayTokens : StartArray(t) /\ Len(jwt') <= MaxArrayJwt

NextArray == SubmitArray \/ \E i \in 1..MaxArrayLen : ResumeElement(i)

SpecArray == InitArray /\ [][NextArray]_vars

-----------------------------------------------------------------------------
(* SpecRepeat: did:A records the action of did:C, and did:B submits        *)
(* envelopes that confirm it twice: in the object array of one AgreeAction, *)
(* in the originalClaim and originalClaims of a Confirmation, and in two    *)
(* AgreeActions that are the elements of an array claim.                    *)

MaxRepeatJwt == 3

LegacyConfirmation(origClaim, origClaims) ==
  [context |-> SchemaOrg, type |-> "Confirmation", originalClaim |-> origClaim,
   originalClaims |-> JsonArray(origClaims)]

RepeatTokens ==
  {Token("did:A", JoinAction("did:C")),
   Token("did:B", AgreeAction(JsonArray(<<JoinAction("did:C"), JoinAction("did:C")>>))),
   Token("did:B", LegacyConfirmation(JoinAction("did:C"), <<JoinAction("did:C")>>)),
   Token("did:B", JsonArray(<<AgreeAction(JoinAction("did:C")),
                              AgreeAction(JoinAction("did:C"))>>))}

InitRepeat == InitWith(SeedRegistration(NoNum, NoNum), "production")

SubmitRepeat == \E t \in RepeatTokens : StartArray(t) /\ Len(jwt') <= MaxRepeatJwt

ResumeRepeat == \E i \in 1..MaxArrayLen : ResumeElement(i)

NextRepeat == SubmitRepeat \/ ResumeRepeat

SpecRepeat == InitRepeat /\ [][NextRepeat]_vars

-----------------------------------------------------------------------------
(* SpecTyped: one claim of every kind that has a typed record, and the     *)
(* confirmation of one, by did:A, and a JoinAction by did:B.               *)

MaxTypedJwt == 3

TypedClaims ==
  {JoinAction("did:C"), Tenure("did:C"), OrgRoleClaim("did:C"), VoteAction,
   RegisterAction("did:A", "did:C"), AgreeAction(JoinAction("did:C")),
   AgreeAction(JsonArray(<<Tenure("did:C"), PersonClaim("did:C")>>))}

TypedTokens ==
  {Token("did:A", c) : c \in TypedClaims} \cup {Token("did:B", JoinAction("did:C"))}

InitTyped ==
  InitWith(SeedRegistration(MaxTypedJwt + 1, MaxTypedJwt + 1), "production")

SubmitTyped ==
  \E t \in TypedTokens :
    /\ createWithClaimRecord(t, "")
    /\ Len(jwt') <= MaxTypedJwt

NextTyped == SubmitTyped

SpecTyped == InitTyped /\ [][NextTyped]_vars

-----------------------------------------------------------------------------
(* SpecAgree: did:A records an action and a tenure of did:C; did:A and     *)
(* did:B confirm several claims with one AgreeAction whose object is an    *)
(* array, among them claims that are not recorded and claims repeated.     *)

MaxAgreeJwt == 3

AgreeArrays ==
  {<<JoinAction("did:C"), Tenure("did:C"), PersonClaim("did:C")>>,
   <<Tenure("did:C"), JoinAction("did:C"), JoinAction("did:C")>>,
   <<OrgRoleClaim("did:D"), PersonClaim("did:D")>>}

AgreeTokens ==
  {Token("did:A", JoinAction("did:C")), Token("did:A", Tenure("did:C"))}
  \cup {Token(d, AgreeAction(JsonArray(a))) : d \in {"did:A", "did:B"}, a \in AgreeArrays}

InitAgree ==
  InitWith(SeedRegistration(MaxAgreeJwt + 1, MaxAgreeJwt + 1), "production")

SubmitAgree ==
  \E t \in AgreeTokens :
    /\ createWithClaimRecord(t, "")
    /\ Len(jwt') <= MaxAgreeJwt

NextAgree == SubmitAgree

SpecAgree == InitAgree /\ [][NextAgree]_vars

-----------------------------------------------------------------------------
(* SpecExtract: payloads with a claim, with a verifiable credential, with  *)
(* both and with neither.  did:A and did:B have the default weekly         *)
(* maximum, did:C is not registered.                                       *)

MaxExtractJwt == 3

Credential(subject) == [type |-> "VerifiableCredential", credentialSubject |-> subject]
CredentialNoSubject == [type |-> "VerifiableCredential"]

ExtractPayloads(iss) ==
  {[iss |-> iss],
   [iss |-> iss, claim |-> JsonNull],
   [iss |-> iss, vc |-> CredentialNoSubject],
   [iss |-> iss, vc |-> JsonNull],
   [iss |-> iss, claim |-> JoinAction("did:C")],
   [iss |-> iss, vc |-> Credential(Tenure("did:C"))],
   [iss |-> iss, claim |-> JsonNull, vc |-> Credential(Tenure("did:C"))],
   [iss |-> iss, claim |-> JoinAction("did:C"), vc |-> Credential(Tenure("did:C"))],
   [iss |-> iss, claim |-> Tenure("did:C"), vc |-> Credential(JoinAction("did:C"))]}

ExtractTokens ==
  {[verifies |-> TRUE, payload |-> p] : p \in ExtractPayloads("did:A")}
  \cup {TokenNoClaim("did:B"), TokenNoClaim("did:C"),
        [BadToken EXCEPT !.payload = [iss |-> "did:A"]]}

InitExtract == InitWith(SeedRegistration(NoNum, NoNum), "production")

SubmitExtract ==
  \E t \in ExtractTokens :
    /\ createWithClaimRecord(t, "")
    /\ Len(jwt') <= MaxExtractJwt

NextExtract == SubmitExtract

SpecExtract == InitExtract /\ [][NextExtract]_vars

-----------------------------------------------------------------------------
(* SpecOrder: submissions that fail several checks at once.  did:A is      *)
(* registered with the default maxima and registers did:B; did:C is not    *)
(* registered; signatures may be bad and the caller may expect did:A.      *)

MaxOrderJwt == 2

OrderTokens ==
  {Token("did:A", c) :
     c \in {RegisterAction("did:B", "did:B"), RegisterAction("did:A", "did:B"),
            JoinAction("did:C")}}
  \cup {Signed(Token(d, RegisterAction(d, "did:C")), v) :
          d \in {"did:B", "did:C"}, v \in BOOLEAN}
  \cup {Token("did:B", JoinAction("did:C"))}

InitOrder ==
  InitWith(registrationInsert([registration |-> <<>>], [did |-> "did:A"]).registration,
           "production")

SubmitOrder ==
  \E t \in OrderTokens, authIssuerId \in {"", "did:A"} :
    /\ createWithClaimRecord(t, authIssuerId)
    /\ Len(jwt') <= MaxOrderJwt

NextOrder == SubmitOrder \/ Tick

SpecOrder == InitOrder /\ [][NextOrder]_vars

-----------------------------------------------------------------------------
(* SpecFail: submissions and complete passes of merkleUnmerkled, in some   *)
(* of which the store rejects one of the writes.                           *)

MaxFailJwt == 3

InitFail == InitWith(SeedRegistration(MaxFailJwt + 1, MaxFailJwt + 1), "production")

SubmitFail ==
  \E t \in ChainTokens :
    /\ createWithClaimRecord(t, "")
    /\ Len(jwt') <= MaxFailJwt

NextFail ==
  \/ SubmitFail
  \/ merkleUnmerkled
  \/ merkleUnmerkledWriteFails

SpecFail == InitFail /\ [][NextFail]_vars

-----------------------------------------------------------------------------
(* Properties of a submission.  A step of createWithClaimRecord leaves the *)
(* clock alone and records the call in last.                               *)

SubmitStep == now' = now /\ last'.op = "createWithClaimRecord"

WasSubmit == last.op = "createWithClaimRecord"

\* the token passes decodeAndVerifyJwt in the running mode
Verifies(token) ==
  NODE_ENV = "test-local" \/ (token.verifies /\ ~expired(now, token.payload))

IsRegistered(did) == \E i \in 1..Len(registration) : registration[i].did = did

\* the identity's configured or default weekly maximum
WeeklyMax(did) ==
  LET r == CHOOSE x \in {registration[i] : i \in 1..Len(registration)} : x.did = did
  IN IF r.maxClaims = NoNum THEN DEFAULT_MAX_CLAIMS_PER_WEEK ELSE r.maxClaims

\* envelopes of the identity issued in the week that starts at weekStart
IssuedInWeek(did, weekStart) ==
  Cardinality({i \in 1..Len(jwt) :
                 jwt[i].issuer = did /\ StartOfWeek(jwt[i].issuedAt) = weekStart})

PastWeeks == {w \in {StartOfWeek(t) : t \in 0..now} : w < StartOfWeek(now)}

NothingPersisted == UNCHANGED <<tables, netCache>>

\* C1: a submission whose issuer has no Registration row is rejected and the
\* store is unchanged (no envelope, typed record, confirmation or edge); the
\* rejection is UNREGISTERED_USER once the token has passed verification and
\* the issuer check.
C1_UnregisteredRejected ==
  [][ (SubmitStep /\ ~IsRegistered(last'.jwtEncoded.payload.iss))
        => /\ last'.code # ""
           /\ NothingPersisted
           /\ (Verifies(last'.jwtEncoded)
               /\ last'.authIssuerId \in {"", last'.jwtEncoded.payload.iss})
              => last'.code = "UNREGISTERED_USER" ]_vars

\* an unregistered identity was turned away while the store held envelopes
C1_Witness ==
  /\ WasSubmit
  /\ last.code = "UNREGISTERED_USER"
  /\ ~IsRegistered(last.jwtEncoded.payload.iss)
  /\ Len(jwt) > 0 /\ network # {}

\* C2: outside test-local mode a token that fails verification is rejected
\* with JWT_VERIFY_FAILED and nothing is persisted.
C2_VerifyFailureRejected ==
  [][ (SubmitStep /\ NODE_ENV # "test-local" /\ ~last'.jwtEncoded.verifies)
        => (last'.code = "JWT_VERIFY_FAILED" /\ NothingPersisted) ]_vars

\* a token of a registered issuer failed verification, the store not empty
C2_Witness ==
  /\ WasSubmit
  /\ NODE_ENV = "production"
  /\ ~last.jwtEncoded.verifies
  /\ IsRegistered(last.jwtEncoded.payload.iss)
  /\ last.code = "JWT_VERIFY_FAILED"
  /\ Len(jwt) > 0

\* the submission would pass every check but the weekly one
Acceptable(token) ==
  /\ Verifies(token)
  /\ IsRegistered(token.payload.iss)
  /\ extractClaim(token.payload) # <<>>
  /\ ~isEndorserRegistrationClaim(extractClaim(token.payload)[1])

AtLimitThisWeek(did) == IssuedInWeek(did, StartOfWeek(now)) = WeeklyMax(did)

\* some earlier week was filled to the maximum and this week is untouched
AfterWeekBoundary(did) ==
  /\ \E w \in PastWeeks : IssuedInWeek(did, w) = WeeklyMax(did)
  /\ IssuedInWeek(did, StartOfWeek(now)) = 0

RejectedOverLimit == last'.code = "OVER_CLAIM_LIMIT" /\ NothingPersisted

AcceptedAsNewRow ==
  /\ last'.code = ""
  /\ Len(jwt') = Len(jwt) + 1
  /\ last'.id = Len(jwt')
  /\ jwt'[Len(jwt')].issuer = last'.jwtEncoded.payload.iss
  /\ jwt'[Len(jwt')].issuedAt = now

\* C3: an identity with exactly its weekly maximum of envelopes issued since
\* the start of the current week is rejected with OVER_CLAIM_LIMIT and nothing
\* is persisted; after a week boundary has passed the identity is accepted
\* again, provided its weekly maximum is at least 1.
C3_WeeklyLimit ==
  [][ (SubmitStep /\ Acceptable(last'.jwtEncoded))
        => LET did == last'.jwtEncoded.payload.iss IN
           /\ AtLimitThisWeek(did) => RejectedOverLimit
           /\ (AfterWeekBoundary(did) /\ WeeklyMax(did) >= 1) => AcceptedAsNewRow ]_vars

\* C3 as stated: the acceptance after the week boundary, whatever the maximum
C3_AsStated ==
  [][ (SubmitStep /\ Acceptable(last'.jwtEncoded))
        => LET did == last'.jwtEncoded.payload.iss IN
           /\ AtLimitThisWeek(did) => RejectedOverLimit
           /\ AfterWeekBoundary(did) => AcceptedAsNewRow ]_vars

\* an identity that filled the previous week was accepted in the new week
C3_Witness ==
  /\ WasSubmit
  /\ last.code = ""
  /\ LET did == last.jwtEncoded.payload.iss IN
       /\ WeeklyMax(did) >= 1
       /\ \E w \in PastWeeks : IssuedInWeek(did, w) = WeeklyMax(did)
       /\ IssuedInWeek(did, StartOfWeek(now)) = 1
       /\ jwt[last.id].issuedAt = now

\* the Action rows that record this agent at this event
OriginalActionIds(claim) ==
  {i \in 1..Len(action) :
     /\ action[i].agentDid = claim.agent.did
     /\ action[i].eventOrgName = claim.event.organizer.name
     /\ action[i].eventName = claim.event.name
     /\ action[i].eventStartTime = claim.event.startTime}

\* the submission carries a JoinAction already recorded for its agent and event
RepeatsJoinAction(token) ==
  /\ extractClaim(token.payload) # <<>>
  /\ LET claim == extractClaim(token.payload)[1] IN
       /\ Str(claim, "type") = "JoinAction"
       /\ Has(claim, "agent") /\ Has(claim.agent, "did")
       /\ OriginalActionIds(claim) # {}

AlreadyExists(ref) ==
  Reject("Same user attempted to record an action claim that already exists with ID ", ref)

\* C5: submitting again a JoinAction already recorded for the same agent and
\* event creates no second Action row and no Event row; the creation of the
\* typed record fails with the 'already exists' error naming the original
\* action id, but the submission itself is not rejected: the envelope is
\* stored and its id returned.
C5_RepeatedJoinAction ==
  [][ (SubmitStep /\ RepeatsJoinAction(last'.jwtEncoded))
        => /\ action' = action /\ event' = event
           /\ Len(jwt') > Len(jwt)
              => /\ last'.code = "" /\ last'.id = Len(jwt')
                 /\ last'.embeddedError =
                      AlreadyExists(SeqMin(OriginalActionIds(
                                             extractClaim(last'.jwtEncoded.payload)[1]))) ]_vars

\* C5 as stated: the repeated submission is rejected with the error
C5_AsStated ==
  [][ (SubmitStep /\ RepeatsJoinAction(last'.jwtEncoded))
        => /\ action' = action
           /\ last'.code # "" ]_vars

\* the same JoinAction went in twice: two envelopes, one Action row
C5_Witness ==
  /\ WasSubmit
  /\ last.code = "" /\ last.id = 2
  /\ last.embeddedError = AlreadyExists(1)
  /\ Len(action) = 1 /\ Len(event) = 1 /\ Len(jwt) = 2

AfterInsertFailure(l) ==
  \/ l.embeddedError # NoError
  \/ \E i \in 1..Len(l.recordings) : l.recordings[i].err # NoError

C7_AsStated ==
  [][ (SubmitStep /\ last'.code = "")
        => \A did \in allDidsInside(extractClaim(last'.jwtEncoded.payload)[1]) :
             <<did, last'.jwtEncoded.payload.iss>> \in network' ]_vars

-----------------------------------------------------------------------------
(* Properties of confirmations *)

TargetKind(orig) ==
  IF Str(orig, "type") = "JoinAction" THEN "action"
  ELSE IF Str(orig, "type") = "Tenure" THEN "tenure"
  ELSE IF Str(orig, "type") = "Organization" THEN "orgRole"
  ELSE "generic"

\* the recorded rows the original claim names
TargetIds(orig) ==
  CASE TargetKind(orig) = "action" -> OriginalActionIds(orig)
    [] TargetKind(orig) = "tenure" ->
         {i \in 1..Len(tenure) :
            /\ tenure[i].partyDid = orig.party.did
            /\ tenure[i].polygon = orig.spatialUnit.geo.polygon}
    [] TargetKind(orig) = "orgRole" ->
         {i \in 1..Len(orgRole) :
            /\ orgRole[i].orgName = orig.name
            /\ orgRole[i].roleName = orig.member.roleName
            /\ orgRole[i].startDate = orig.member.startDate
            /\ orgRole[i].endDate = orig.member.endDate
            /\ orgRole[i].memberDid = orig.member.member.identifier}
    [] OTHER -> {}

\* the confirmations the issuer already holds for the target of this claim
PriorConfirmations(issuer, orig) ==
  {i \in 1..Len(confirmation) :
     /\ confirmation[i].issuer = issuer
     /\ CASE TargetKind(orig) = "action" -> confirmation[i].actionRowId \in TargetIds(orig)
          [] TargetKind(orig) = "tenure" -> confirmation[i].tenureRowId \in TargetIds(orig)
          [] TargetKind(orig) = "orgRole" -> confirmation[i].orgRoleRowId \in TargetIds(orig)
          [] OTHER -> confirmation[i].origClaim = canonicalize(orig)}

AlreadyConfirmedMessage(orig) ==
  CASE TargetKind(orig) = "action" -> "Attempted to confirm an action already confirmed in # "
    [] TargetKind(orig) = "tenure" -> "Attempted to confirm a tenure already confirmed in # "
    [] TargetKind(orig) = "orgRole" -> "Attempted to confirm a orgRole already confirmed in # "
    [] OTHER -> "Attempted to confirm a claim already confirmed in # "

\* the submission stores an envelope whose claim confirms one original claim
ConfirmsOne(token) ==
  /\ Len(jwt') > Len(jwt)
  /\ Str(token.payload.claim, "type") = "AgreeAction"
  /\ ~isArray(token.payload.claim.object)

\* the confirmation row the step appended
NewConfirmationRow(issuer, orig) ==
  LET ids == TargetIds(orig)
      id == IF ids = {} THEN NoId ELSE SeqMin(ids)
  IN [id |-> Len(confirmation) + 1, jwtId |-> last'.id, issuer |-> issuer,
      origClaim |-> canonicalize(orig),
      actionRowId |-> IF TargetKind(orig) = "action" THEN id ELSE NoId,
      tenureRowId |-> IF TargetKind(orig) = "tenure" THEN id ELSE NoId,
      orgRoleRowId |-> IF TargetKind(orig) = "orgRole" THEN id ELSE NoId]

\* C4: a confirmation of a recorded action, tenure or organization role, or
\* of any other claim, succeeds the first time the issuer makes it, returning
\* the id of the new confirmation row; made again by the same issuer for the
\* same target it fails with the "already confirmed in #" error naming the
\* earlier confirmation, and no confirmation row is created.
C4_DuplicateConfirmation ==
  [][ (SubmitStep /\ ConfirmsOne(last'.jwtEncoded))
        => LET issuer == last'.jwtEncoded.payload.iss
               orig == last'.jwtEncoded.payload.claim.object
               prior == PriorConfirmations(issuer, orig)
               made == last'.recordings
           IN /\ Len(made) = 1
              /\ IF prior # {}
                 THEN /\ made[1].err = Reject(AlreadyConfirmedMessage(orig), SeqMin(prior))
                      /\ made[1].confirmId = NoId
                      /\ confirmation' = confirmation
                 ELSE IF TargetKind(orig) = "generic" \/ TargetIds(orig) # {}
                 THEN /\ made[1].err = NoError
                      /\ made[1].confirmId = Len(confirmation) + 1
                      /\ confirmation' = Append(confirmation, NewConfirmationRow(issuer, orig))
                 ELSE /\ made[1].err # NoError
                      /\ confirmation' = confirmation ]_vars

\* a recorded tenure was confirmed, and the same confirmation then refused
C4_Witness ==
  /\ WasSubmit
  /\ Len(last.recordings) = 1
  /\ last.recordings[1].err =
       Reject("Attempted to confirm a tenure already confirmed in # ", 1)
  /\ Len(tenure) = 1
  /\ Len(confirmation) = 1 /\ confirmation[1].tenureRowId = 1
  /\ confirmation[1].issuer = last.jwtEncoded.payload.iss

-----------------------------------------------------------------------------
(* Properties of reads *)

ReadStep == last'.op = "ActionService.byId"

\* the visible set a read by this requester works with: the cached one if
\* there is one, the stored one otherwise
VisibleSet(requesterDid) ==
  IF requesterDid \in DOMAIN netCache
  THEN netCache[requesterDid]
  ELSE getNetwork(Store, requesterDid)

\* C8: byId returns null only when no action has the id; for an existing
\* action it returns the record with agentDid the real agent if the agent is
\* in the requester's visible set and the hidden sentinel otherwise, every
\* other field as stored; the tables are not written.
C8_ByIdRedacts ==
  [][ ReadStep
        => LET rows == {i \in 1..Len(action) : action[i].id = last'.id}
               visible == VisibleSet(last'.requesterDid)
           IN /\ UNCHANGED tables
              /\ IF rows = {}
                 THEN last'.result = <<>>
                 ELSE \E i \in rows :
                        last'.result =
                          <<[action[i] EXCEPT !.agentDid =
                               IF action[i].agentDid \in visible
                               THEN action[i].agentDid ELSE HIDDEN_TEXT]>> ]_vars

\* one action read twice: its agent hidden from one requester, shown to another
C8_Witness ==
  /\ last.op = "ActionService.byId"
  /\ last.result # <<>>
  /\ last.result[1].agentDid = "did:A"
  /\ action[last.id].agentDid = "did:A"
  /\ \E other \in DOMAIN netCache : "did:A" \notin netCache[other]

-----------------------------------------------------------------------------
(* Properties of the hash chain *)

\* C10: every stored chain value is the one a replay gives: the chain of the
\* rows up to it, in id order, from the empty seed; it is the link of the
\* previous row's chain value (the empty seed for the first row) and the row.
C10_ChainReplay ==
  \A i \in 1..Len(jwt) :
    jwt[i].hashChainHex # NullHex
      => /\ jwt[i].hashChainHex = hashChain(EmptyHex, SubSeq(jwt, 1, i))
         /\ jwt[i].hashChainHex =
              hashChain(IF i = 1 THEN EmptyHex ELSE jwt[i - 1].hashChainHex, <<jwt[i]>>)

\* two rows chained by two passes, an insertion between them
C10_Witness ==
  /\ last.op = "merkleUnmerkled"
  /\ last.updates = 1
  /\ Len(jwt) = 2
  /\ jwt[1].hashChainHex # NullHex
  /\ jwt[2].hashChainHex # NullHex


-----------------------------------------------------------------------------
(* C11                                                                     *)

\* C11 as stated: the elements of an array payload are dispatched one after
\* the other, so an element has made no database call while the element
\* before it is not finished.
C11_AsStated ==
  \A n \in 1..Len(inflight) :
    \A i \in 1..(Len(inflight[n].el) - 1) :
      inflight[n].el[i + 1].touched => Finished(inflight[n].el[i])

\* what the interleaving leads to: an array of two JoinActions for one event
\* has left two Event rows for that event
C11_TwoEventRows ==
  \E i, j \in 1..Len(event) :
    /\ i < j
    /\ event[i].orgName = event[j].orgName
    /\ event[i].name = event[j].name
    /\ event[i].startTime = event[j].startTime

-----------------------------------------------------------------------------
(* C12                                                                     *)

IssuerMismatchMessage == "JWT issuer does not match claim issuer"

\* the caller expected an issuer other than the token's
ExpectsOtherIssuer ==
  /\ last'.authIssuerId # ""
  /\ last'.authIssuerId # last'.jwtEncoded.payload.iss

\* C12: a submission whose caller expects an issuer other than the token's is
\* rejected and changes nothing, and a token that verifies is rejected for the
\* mismatch whether or not its issuer is registered; a submission with no
\* expected issuer, or with the token's issuer, is never rejected for a
\* mismatch.
C12_IssuerMismatch ==
  [][ SubmitStep =>
        IF ExpectsOtherIssuer
        THEN /\ last'.code # ""
             /\ NothingPersisted
             /\ Verifies(last'.jwtEncoded) => last'.code = IssuerMismatchMessage
        ELSE last'.code # IssuerMismatchMessage ]_vars

\* did:A has a stored envelope, and a token of did:A handed in with did:B as
\* the expected issuer has been rejected for the mismatch
C12_Witness ==
  /\ last.op = "createWithClaimRecord"
  /\ last.authIssuerId = "did:B"
  /\ last.jwtEncoded.payload.iss = "did:A"
  /\ last.code = IssuerMismatchMessage
  /\ Len(jwt) = 1

-----------------------------------------------------------------------------
(* C13                                                                     *)

\* the identity's configured or default monthly maximum of registrations
MonthlyMax(did) ==
  LET r == CHOOSE x \in {registration[i] : i \in 1..Len(registration)} : x.did = did
  IN IF r.maxRegs = NoNum THEN DEFAULT_MAX_REGISTRATIONS_PER_MONTH ELSE r.maxRegs

\* the registrations made by envelopes the identity issued, in the month that
\* starts at monthStart
RegisteredInMonth(did, monthStart) ==
  Cardinality({i \in 1..Len(registration) :
                 /\ registration[i].jwtId # NoId
                 /\ jwt[registration[i].jwtId].issuer = did
                 /\ StartOfMonth(registration[i].epoch) = monthStart})

\* C13 as stated: the registrations an issuer makes in one month never exceed
\* its configured or default monthly maximum.
C13_AsStated ==
  \A did \in DIDs :
    IsRegistered(did) =>
      \A t \in 0..now : RegisteredInMonth(did, StartOfMonth(t)) <= MonthlyMax(did)

\* the rejection itself: a registration claim of an issuer whom the store
\* counts at its monthly maximum is rejected and nothing is created
C13_RejectedAtCount ==
  [][ (/\ SubmitStep
       /\ Verifies(last'.jwtEncoded)
       /\ IsRegistered(last'.jwtEncoded.payload.iss)
       /\ isEndorserRegistrationClaim(last'.jwtEncoded.payload.claim)
       /\ registrationCountByAfter(Store, last'.jwtEncoded.payload.iss, StartOfMonth(now))
            >= MonthlyMax(last'.jwtEncoded.payload.iss))
      => (last'.code \in {"OVER_REGISTRATION_LIMIT", "OVER_CLAIM_LIMIT"} /\ NothingPersisted) ]_vars

-----------------------------------------------------------------------------
(* C14                                                                     *)

\* the issuer's own registration, made by a claim, dates from the current week
RegisteredThisWeek(did) ==
  \E i \in 1..Len(registration) :
    /\ registration[i].did = did
    /\ registration[i].epoch # NoNum
    /\ StartOfWeek(registration[i].epoch) = StartOfWeek(now)

\* C14 as stated: a registration claim of an issuer that was itself registered
\* in the current week is rejected and nothing is created.
C14_AsStated ==
  [][ (/\ SubmitStep
       /\ Verifies(last'.jwtEncoded)
       /\ isEndorserRegistrationClaim(last'.jwtEncoded.payload.claim)
       /\ RegisteredThisWeek(last'.jwtEncoded.payload.iss))
      => (last'.code # "" /\ NothingPersisted) ]_vars

\* the same for an issuer registered later than the first instant of the week
C14_StrictlyInsideWeek ==
  [][ (/\ SubmitStep
       /\ Verifies(last'.jwtEncoded)
       /\ isEndorserRegistrationClaim(last'.jwtEncoded.payload.claim)
       /\ \E i \in 1..Len(registration) :
            /\ registration[i].did = last'.jwtEncoded.payload.iss
            /\ registration[i].epoch # NoNum
            /\ registration[i].epoch > StartOfWeek(now))
      => (last'.code # "" /\ NothingPersisted) ]_vars

-----------------------------------------------------------------------------
(* C15                                                                     *)

\* the (context, type) pairs createEmbeddedClaimRecord has a branch for
RecognizedPairs ==
  {<<c, t>> : c \in {SchemaOrg, LegacySchemaOrg},
              t \in {"AgreeAction", "JoinAction", "Organization", "RegisterAction",
                     "VoteAction", "Confirmation"}}
  \cup {<<EndorserCh, "Tenure">>}

Unrecognized(claim) == <<Str(claim, "context"), Str(claim, "type")>> \notin RecognizedPairs

\* the submission passes every check made before the envelope is stored
PassesChecks(token) ==
  /\ Acceptable(token)
  /\ IssuedInWeek(token.payload.iss, StartOfWeek(now)) < WeeklyMax(token.payload.iss)

\* C15: a submission that passes the checks and whose claim has a (context,
\* type) pair the dispatch has no branch for is accepted: one envelope holding
\* the claim is added and its id returned, no typed or confirmation row is
\* created, and the dispatch raises no error.
C15_UnrecognizedAccepted ==
  [][ (/\ SubmitStep
       /\ PassesChecks(last'.jwtEncoded)
       /\ Unrecognized(last'.jwtEncoded.payload.claim))
      => (/\ last'.code = ""
          /\ last'.embeddedError = NoError
          /\ Len(jwt') = Len(jwt) + 1
          /\ last'.id = jwt'[Len(jwt')].id
          /\ jwt'[Len(jwt')].claim = canonicalize(last'.jwtEncoded.payload.claim)
          /\ jwt'[Len(jwt')].claimType = Str(last'.jwtEncoded.payload.claim, "type")
          /\ UNCHANGED <<registration, event, action, tenure, orgRole, vote,
                         confirmation>>) ]_vars

\* a JoinAction under the endorser.ch context went in as the second envelope
\* and left no Action or Event row
C15_Witness ==
  /\ last.op = "createWithClaimRecord"
  /\ last.jwtEncoded.payload.claim = JoinActionOtherContext
  /\ last.code = ""
  /\ last.id = 2
  /\ Len(jwt) = 2
  /\ jwt[1].claimType = "Person"
  /\ action = <<>>
  /\ event = <<>>

-----------------------------------------------------------------------------
(* C16                                                                     *)

\* the agent identities a read of ActionService has returned
AgentsReturned ==
  IF last.op = "ActionService.byId(id)" \/ last.op = "ActionService.byQuery"
  THEN {last.result[i].agentDid : i \in 1..Len(last.result)}
  ELSE IF last.op = "ActionService.getActionClaimsAndConfirmationsForEventsSince"
  THEN DOMAIN last.result
  ELSE {}

\* C16 as stated: whoever the requester is, a read of ActionService returns
\* no agent identity outside the requester's visible set; the hidden sentinel
\* stands in its place.
C16_AsStated ==
  \A requesterDid \in DIDs :
    AgentsReturned \subseteq VisibleSet(requesterDid) \cup {HIDDEN_TEXT}

-----------------------------------------------------------------------------
(* C17                                                                     *)

SummaryFields ==
  {"id", "issuedAt", "issuer", "subject", "claimContext", "claimType", "claim"}

InternalFields == {"jwtEncoded", "claimEncoded", "hashHex", "hashChainHex"}

\* the stored envelopes with this id
JwtRows(id) == {i \in 1..Len(jwt) : jwt[i].id = id}

\* the record is the summary of a stored envelope: the seven fields, each as
\* stored, the claim parsed
SummaryOf(rec, row) ==
  /\ DOMAIN rec = SummaryFields
  /\ \A f \in SummaryFields \ {"claim"} : rec[f] = row[f]
  /\ canonicalize(rec.claim) = row.claim

\* C17: byId returns null for an unknown id and otherwise the summary of the
\* envelope; byQuery returns summaries of stored envelopes and nothing else;
\* fullJwtById returns null for an unknown id and otherwise the stored
\* row, with the signed token, the encoded claim and the hash fields; none of
\* the three changes the store or the cache.
C17_ReadsExposeSummary ==
  [][ /\ last'.op = "JwtService.byId" =>
           /\ UNCHANGED <<tables, netCache>>
           /\ IF JwtRows(last'.id) = {} THEN last'.result = <<>>
              ELSE /\ Len(last'.result) = 1
                   /\ \E i \in JwtRows(last'.id) : SummaryOf(last'.result[1], jwt[i])
      /\ last'.op = "JwtService.byQuery" =>
           /\ UNCHANGED <<tables, netCache>>
           /\ \A k \in 1..Len(last'.result) :
                \E i \in 1..Len(jwt) : SummaryOf(last'.result[k], jwt[i])
      /\ last'.op = "JwtService.fullJwtById" =>
           /\ UNCHANGED <<tables, netCache>>
           /\ IF JwtRows(last'.id) = {} THEN last'.result = <<>>
              ELSE /\ \E i \in JwtRows(last'.id) : last'.result = <<jwt[i]>>
                   /\ InternalFields \subseteq DOMAIN last'.result[1] ]_vars

\* a chained envelope read by byId: the summary came back, and the stored row
\* holds a hash-chain value the summary does not show
C17_Witness ==
  /\ last.op = "JwtService.byId"
  /\ last.result # <<>>
  /\ DOMAIN last.result[1] \cap InternalFields = {}
  /\ jwt[last.id].hashChainHex # NullHex
  /\ Len(jwt) = 2

-----------------------------------------------------------------------------
(* C18                                                                     *)

\* the Registration row createWithClaimRecord takes the identity's limits from
RegisteredRow(did) == registrationByDid(Store, did)[1]

\* C18 as stated: the maximums getRateLimits reports for a registered identity
\* are the ones createWithClaimRecord compares the identity's counts against.
C18_AsStated ==
  (last.op = "JwtService.getRateLimits" /\ last.result # <<>>)
    => /\ last.result[1].maxClaimsPerWeek = maxAllowedClaimsOf(RegisteredRow(last.requestorDid))
       /\ last.result[1].maxRegistrationsPerMonth
            = maxAllowedRegsOf(RegisteredRow(last.requestorDid))

\* the same for an identity whose overrides, where set, are not 0
C18_NonZeroOverrides ==
  (/\ last.op = "JwtService.getRateLimits"
   /\ last.result # <<>>
   /\ RegisteredRow(last.requestorDid).maxClaims # 0
   /\ RegisteredRow(last.requestorDid).maxRegs # 0)
    => /\ last.result[1].maxClaimsPerWeek = maxAllowedClaimsOf(RegisteredRow(last.requestorDid))
       /\ last.result[1].maxRegistrationsPerMonth
            = maxAllowedRegsOf(RegisteredRow(last.requestorDid))

-----------------------------------------------------------------------------
(* C19                                                                     *)

DecodeStep == last'.op = "decodeAndVerifyJwt" /\ now' = now

\* the exp of the token lies in the past
ExpInPast(token) == Has(token.payload, "exp") /\ token.payload.exp < now

\* C19: in test-local mode decodeAndVerifyJwt accepts every token, whatever
\* its signature and expiry, with the issuer the payload names; the payload is
\* returned as it is, except that an exp in the past is replaced by a time in
\* the future.
C19_TestLocalAcceptsAll ==
  [][ (DecodeStep /\ NODE_ENV = "test-local")
      => /\ last'.result # <<>>
         /\ last'.result[1].issuer = last'.jwt.payload.iss
         /\ IF ExpInPast(last'.jwt)
            THEN /\ last'.result[1].payload.exp > now
                 /\ last'.result[1].payload
                      = [last'.jwt.payload EXCEPT !.exp = last'.result[1].payload.exp]
            ELSE last'.result[1].payload = last'.jwt.payload ]_vars

\* in test-local mode a token with an invalid signature and an exp in the past
\* came back with an exp in the future
C19_Witness ==
  /\ NODE_ENV = "test-local"
  /\ last.op = "decodeAndVerifyJwt"
  /\ ~last.jwt.verifies
  /\ ExpInPast(last.jwt)
  /\ last.result # <<>>
  /\ last.result[1].payload.exp > now

-----------------------------------------------------------------------------
(* C20                                                                     *)

\* C20: in every mode other than test-local, verification is applied to every
\* token alike: a token is accepted exactly if its signature is valid and it
\* has not expired, with its payload untouched, whatever its header, payload
\* and claim; and the persisted outcome of a submission follows the same rule.
C20_BypassOnlyByMode ==
  [][ NODE_ENV # "test-local"
      => /\ DecodeStep
            => /\ last'.result # <<>>
                    <=> (last'.jwt.verifies /\ ~expired(now, last'.jwt.payload))
               /\ last'.result # <<>> => last'.result[1].payload = last'.jwt.payload
         /\ SubmitStep
            => (last'.code = "JWT_VERIFY_FAILED"
                  <=> ~(last'.jwtEncoded.verifies /\ ~expired(now, last'.jwtEncoded.payload))) ]_vars

\* in test mode, one token with a test header and an invalid signature was
\* turned away, and so was an expired one with a valid signature
C20_Witness ==
  /\ NODE_ENV = "test"
  /\ last.op = "decodeAndVerifyJwt"
  /\ last.result = <<>>
  /\ last.jwt.verifies
  /\ expired(now, last.jwt.payload)
  /\ decodeAndVerifyJwt(NODE_ENV, now, TestHeaderToken) = <<>>

-----------------------------------------------------------------------------
(* C21                                                                     *)

\* the claim a Confirmation row confirms, parsed from its stored content
ConfirmedClaim(row) == JSON_parse(row.origClaim)

\* the claim has the shape of a JoinAction, a Tenure or an organization role
RecordedShape(orig) ==
  \/ isContextSchemaOrg(Str(orig, "context")) /\ Str(orig, "type") = "JoinAction"
  \/ Str(orig, "context") = EndorserCh /\ Str(orig, "type") = "Tenure"
  \/ /\ isContextSchemaOrg(Str(orig, "context"))
     /\ Str(orig, "type") = "Organization"
     /\ Has(orig, "member")
     /\ Str(orig.member, "type") = "OrganizationRole"
     /\ Has(orig.member, "member")
     /\ Str(orig.member.member, "identifier") # ""

TargetsOf(row) ==
  {k \in {"actionRowId", "tenureRowId", "orgRoleRowId"} : row[k] # NoId}

\* C21: every Confirmation row has at most one target among action, tenure
\* and organization role, and the row of a confirmed claim that has none of
\* the three recorded shapes has no target.
C21_AtMostOneTarget ==
  \A i \in 1..Len(confirmation) :
    /\ Cardinality(TargetsOf(confirmation[i])) <= 1
    /\ ~RecordedShape(ConfirmedClaim(confirmation[i])) => TargetsOf(confirmation[i]) = {}

\* an action is recorded and confirmed, and a claim of no recorded shape is
\* confirmed too: one row with the action as its target, one with none
C21_Witness ==
  /\ Len(action) >= 1
  /\ \E i, j \in 1..Len(confirmation) :
       /\ TargetsOf(confirmation[i]) = {"actionRowId"}
       /\ ~RecordedShape(ConfirmedClaim(confirmation[j]))
       /\ TargetsOf(confirmation[j]) = {}

-----------------------------------------------------------------------------
(* C22                                                                     *)

UnrecordedMessages ==
  {"Attempted to confirm action at an unrecorded event.",
   "Attempted to confirm an unrecorded action.",
   "Attempted to confirm an unrecorded tenure.",
   "Attempted to confirm an unrecorded orgRole."}

\* C22: the confirmation of a JoinAction, Tenure or organization role of which
\* no record exists fails with an "unrecorded" error (for a JoinAction: the
\* event if there is no such event, the action otherwise) and no Confirmation
\* row is inserted.
C22_UnrecordedTarget ==
  [][ (/\ SubmitStep
       /\ ConfirmsOne(last'.jwtEncoded)
       /\ TargetKind(last'.jwtEncoded.payload.claim.object) # "generic"
       /\ TargetIds(last'.jwtEncoded.payload.claim.object) = {})
      => /\ Len(last'.recordings) = 1
         /\ last'.recordings[1].confirmId = NoId
         /\ last'.recordings[1].err.error \in UnrecordedMessages
         /\ TargetKind(last'.jwtEncoded.payload.claim.object) = "action"
              => (last'.recordings[1].err.error = "Attempted to confirm an unrecorded action."
                    <=> event # <<>>)
         /\ confirmation' = confirmation ]_vars

\* the event is recorded with did:A's action, and did:B's confirmation of an
\* action of did:C there failed as unrecorded
C22_Witness ==
  /\ last.op = "createWithClaimRecord"
  /\ Len(action) = 1
  /\ last.recordings # <<>>
  /\ last.recordings[1].err.error = "Attempted to confirm an unrecorded action."
  /\ confirmation = <<>>

-----------------------------------------------------------------------------
(* Properties of events *)

\* the (organizer name, event name, start time) of an event row
TripleOf(row) == <<row.orgName, row.name, row.startTime>>

\* the triple a JoinAction claim names
ClaimTriple(claim) ==
  <<claim.event.organizer.name, claim.event.name, claim.event.startTime>>

\* the event rows with this triple
EventRowsOf(triple) == {i \in 1..Len(event) : TripleOf(event[i]) = triple}

\* the step stores an envelope with a JoinAction claim
StoresJoinAction(token) ==
  /\ Len(jwt') > Len(jwt)
  /\ Str(token.payload.claim, "type") = "JoinAction"

\* C23: submissions that do not overlap leave at most one Event row for any
\* (organizer name, event name, start time); a JoinAction of an agent who has
\* no action at an event already recorded adds no Event row and adds one
\* Action row, which refers to the first Event row of that triple.
C23_EventDeduplicated ==
  /\ \A i, j \in 1..Len(event) : TripleOf(event[i]) = TripleOf(event[j]) => i = j
  /\ [][ (/\ SubmitStep
          /\ StoresJoinAction(last'.jwtEncoded)
          /\ EventRowsOf(ClaimTriple(last'.jwtEncoded.payload.claim)) # {}
          /\ OriginalActionIds(last'.jwtEncoded.payload.claim) = {})
         => /\ event' = event
            /\ Len(action') = Len(action) + 1
            /\ action'[Len(action')].eventRowId
                 = SeqMin(EventRowsOf(ClaimTriple(last'.jwtEncoded.payload.claim)))
            /\ action'[Len(action')].agentDid = last'.jwtEncoded.payload.claim.agent.did ]_vars

\* two agents have joined the second event recorded: one Event row for it,
\* and the later Action row refers to it
C23_Witness ==
  /\ Len(event) = 2
  /\ Len(action) = 3
  /\ action[2].eventRowId = 2
  /\ action[3].eventRowId = 2
  /\ action[2].agentDid # action[3].agentDid

-----------------------------------------------------------------------------
(* Properties of the repair of content hashes *)

PassStep == last'.op = "merkleUnmerkled"

Unchained(i) == jwt[i].hashChainHex = NullHex

\* C24: a pass that meets unchained rows with a null content hash completes:
\* it writes every unchained row, a row with a null content hash gets the
\* hash of its masked claim together with its chain value, the rows after it
\* are chained as well, and a row whose content hash was set keeps it.
C24_NullHashRepaired ==
  [][ PassStep
      => /\ last'.updates = Cardinality({i \in 1..Len(jwt) : Unchained(i)})
         /\ last'.missed = {i \in 1..Len(jwt) : Unchained(i) /\ jwt[i].hashHex = NullHex}
         /\ Len(jwt') = Len(jwt)
         /\ \A i \in 1..Len(jwt) :
              /\ jwt'[i].hashChainHex # NullHex
              /\ jwt'[i].hashHex = IF jwt[i].hashHex = NullHex
                                   THEN hashedClaimWithHashedDids(jwt[i])
                                   ELSE jwt[i].hashHex
              /\ jwt'[i].hashHex # NullHex ]_vars

\* a pass has met the first row without a content hash and has chained it
\* and the two rows after it
C24_Witness ==
  /\ last.op = "merkleUnmerkled"
  /\ last.missed = {1}
  /\ last.updates = 3
  /\ \A i \in 1..3 : jwt[i].hashHex # NullHex /\ jwt[i].hashChainHex # NullHex

-----------------------------------------------------------------------------
(* Properties of passes that overlap *)

\* no call of merkleUnmerkled has read while another one has read and has
\* not resolved
NoOverlappingPass == Len(inflight) <= 1

\* the chain value of a chained row is the link of its predecessor's
LinkedFromPredecessor ==
  \A i \in 1..Len(jwt) :
    jwt[i].hashChainHex # NullHex
      => jwt[i].hashChainHex =
           hashChain(IF i = 1 THEN EmptyHex ELSE jwt[i - 1].hashChainHex, <<jwt[i]>>)

\* C25: no second call of merkleUnmerkled reads the unchained rows or the
\* last chain value while a first call has read them and has not written all
\* its links, and every chained row is linked from its predecessor's chain
\* value.
C25_AsStated ==
  /\ NoOverlappingPass
  /\ LinkedFromPredecessor

-----------------------------------------------------------------------------
(* Properties of stored envelopes *)

\* what an envelope row holds apart from its two hashes
EnvelopeContent(row) ==
  [id |-> row.id, issuer |-> row.issuer, subject |-> row.subject,
   issuedAt |-> row.issuedAt, claimContext |-> row.claimContext,
   claimType |-> row.claimType, claim |-> row.claim,
   claimEncoded |-> row.claimEncoded, jwtEncoded |-> row.jwtEncoded]

-----------------------------------------------------------------------------
(* Properties of submissions that overlap *)

\* the submissions of the identity that are counted and not yet inserted
Submitting(did) ==
  Cardinality({k \in 1..Len(inflight) : inflight[k].payload.iss = did})

\* C27 as stated: submissions of one identity that overlap leave at most one
\* envelope more than its weekly maximum in one week.
C27_AsStated ==
  \A did \in {"did:A", "did:B"} :
    IssuedInWeek(did, StartOfWeek(now)) <= WeeklyMax(did) + 1

\* what the count before the insert does ensure: the envelopes of an identity
\* in the week and its submissions still to insert never add up to more than
\* its weekly maximum and the submissions that can be under way together,
\* less one
ExcessBounded ==
  \A did \in {"did:A", "did:B"} :
    IssuedInWeek(did, StartOfWeek(now)) + Submitting(did)
      <= WeeklyMax(did) + MaxSubmitting - 1

\* did:A has two envelopes more than its weekly maximum in the week
TwoExtra ==
  /\ last.op = "createWithClaimRecord"
  /\ last.code = ""
  /\ inflight = <<>>
  /\ IssuedInWeek("did:A", StartOfWeek(now)) = WeeklyMax("did:A") + MaxSubmitting - 1

-----------------------------------------------------------------------------
(* Properties of the descent of registrations *)

\* a Registration row inserted directly, not by a claim
Seeded(row) == row.jwtId = NoId

\* C28: while no Registration row has been inserted directly, no envelope and
\* no Registration row is stored; and every Registration row made by a claim
\* refers to a stored envelope whose issuer had a Registration row before
\* that one was made.
C28_DescendFromSeeds ==
  /\ (\A i \in 1..Len(registration) : ~Seeded(registration[i]))
       => (jwt = <<>> /\ registration = <<>>)
  /\ \A i \in 1..Len(registration) :
       ~Seeded(registration[i])
         => /\ registration[i].jwtId \in 1..Len(jwt)
            /\ \E j \in 1..(i - 1) :
                 registration[j].did = jwt[registration[i].jwtId].issuer

\* did:D is registered by a claim of did:C, who is registered by a claim of
\* the seeded did:A
C28_Witness ==
  /\ Len(registration) = 3
  /\ Seeded(registration[1])
  /\ registration[3].did = "did:D"
  /\ jwt[registration[3].jwtId].issuer = "did:C"
  /\ jwt[registration[2].jwtId].issuer = "did:A"

-----------------------------------------------------------------------------
(* Properties of canonicalize *)

\* the two values differ in the order of the keys of their objects at most
RECURSIVE SameButKeyOrder(_, _)
SameButKeyOrder(x, y) ==
  /\ x.t = y.t
  /\ CASE x.t = "str" -> x.s = y.s
       [] x.t = "arr" -> /\ Len(x.a) = Len(y.a)
                         /\ \A i \in 1..Len(x.a) : SameButKeyOrder(x.a[i], y.a[i])
       [] OTHER -> /\ Len(x.m) = Len(y.m)
                   /\ \A i \in 1..Len(x.m) : \E j \in 1..Len(y.m) :
                        /\ x.m[i].k = y.m[j].k
                        /\ SameButKeyOrder(x.m[i].v, y.m[j].v)

WasCanonicalize == last.op = "canonicalize"

-----------------------------------------------------------------------------
(* Properties of a claim confirmed more than once in one envelope *)

\* the two confirmation rows are made by one envelope, for one issuer and
\* one confirmed claim
SameConfirmation(i, j) ==
  /\ confirmation[i].jwtId = confirmation[j].jwtId
  /\ confirmation[i].issuer = confirmation[j].issuer
  /\ confirmation[i].origClaim = confirmation[j].origClaim
  /\ TargetsOf(confirmation[i]) = TargetsOf(confirmation[j])

\* the claim of the envelope is an array
ArrayEnvelope(jwtId) == isArray(jwt[jwtId].jwtEncoded.payload.claim)

\* C30 as stated: no envelope leaves two Confirmation rows for one issuer
\* and one target, wherever in its payload the confirmed claim is repeated.
C30_AsStated ==
  \A i, j \in 1..Len(confirmation) : SameConfirmation(i, j) => i = j

\* what does hold: the envelopes whose claim is not an array leave one row
RepeatedWithinOneClaim ==
  \A i, j \in 1..Len(confirmation) :
    (SameConfirmation(i, j) /\ ~ArrayEnvelope(confirmation[i].jwtId)) => i = j

-----------------------------------------------------------------------------
(* Properties of actions *)

\* the agent and the event of an action row
AgentAtEvent(row) ==
  <<row.agentDid, row.eventOrgName, row.eventName, row.eventStartTime>>

\* the issuers of the action rows the JoinAction claim names
RecordedBy(claim) == {action[i].issuerDid : i \in OriginalActionIds(claim)}

-----------------------------------------------------------------------------
(* Properties of the registrar of a registration *)

\* C32 as stated: every Registration row made by a claim has as its agent
\* the issuer of the envelope it refers to, and the store's count of an
\* issuer's registrations in the month is the number of registrations made
\* by envelopes that issuer issued.
C32_AsStated ==
  /\ \A i \in 1..Len(registration) :
       registration[i].jwtId # NoId
         => registration[i].agent = jwt[registration[i].jwtId].issuer
  /\ \A did \in DIDs :
       registrationCountByAfter(Store, did, StartOfMonth(now))
         = RegisteredInMonth(did, StartOfMonth(now))

-----------------------------------------------------------------------------
(* Properties of the id a submission returns *)

\* the rows the step adds to a table all refer to the envelope
NewRowsReferTo(before, after, jwtId) ==
  \A i \in (Len(before) + 1)..Len(after) : after[i].jwtId = jwtId

\* the step adds a typed record or a confirmation
AddsRecord ==
  \/ Len(action') > Len(action) \/ Len(tenure') > Len(tenure)
  \/ Len(orgRole') > Len(orgRole) \/ Len(vote') > Len(vote)
  \/ Len(registration') > Len(registration) \/ Len(confirmation') > Len(confirmation)

-----------------------------------------------------------------------------
(* Properties of an AgreeAction whose object is an array *)

\* the submission stores an envelope whose claim confirms an array of claims
ConfirmsArray(token) ==
  /\ Len(jwt') > Len(jwt)
  /\ Str(token.payload.claim, "type") = "AgreeAction"
  /\ isArray(token.payload.claim.object)

\* two original claims have the same target
SameTarget(o1, o2) ==
  /\ TargetKind(o1) = TargetKind(o2)
  /\ IF TargetKind(o1) = "generic" THEN canonicalize(o1) = canonicalize(o2)
     ELSE TargetIds(o1) \cap TargetIds(o2) # {}

\* the elements the issuer can confirm: the target is recorded, the issuer
\* has not confirmed it, and no earlier element of the array has it
Confirmable(issuer, origs) ==
  {k \in 1..Len(origs) :
     /\ TargetKind(origs[k]) = "generic" \/ TargetIds(origs[k]) # {}
     /\ PriorConfirmations(issuer, origs[k]) = {}
     /\ \A j \in 1..(k - 1) : ~SameTarget(origs[j], origs[k])}

\* the row the k-th element leaves: the rows come in the order of the array
RowOfElement(ks, k) == Len(confirmation) + Cardinality({j \in ks : j <= k})

\* C34: an AgreeAction whose object is an array has its confirmations
\* attempted one at a time in the order of the array; an element that fails
\* (its target is not recorded, or the issuer has confirmed it already)
\* keeps neither the confirmations of the other elements nor the visibility
\* edges of the envelope from being made.
C34_EachElementConfirmed ==
  [][ (SubmitStep /\ ConfirmsArray(last'.jwtEncoded))
        => LET issuer == last'.jwtEncoded.payload.iss
               origs == last'.jwtEncoded.payload.claim.object.array
               ks == Confirmable(issuer, origs)
           IN /\ last'.code = ""
              /\ Len(last'.recordings) = Len(origs)
              /\ \A k \in 1..Len(origs) :
                   /\ (last'.recordings[k].err = NoError) = (k \in ks)
                   /\ k \in ks => last'.recordings[k].confirmId = RowOfElement(ks, k)
              /\ Len(confirmation') = Len(confirmation) + Cardinality(ks)
              /\ SubSeq(confirmation', 1, Len(confirmation)) = confirmation
              /\ \A k \in ks :
                   LET row == confirmation'[RowOfElement(ks, k)]
                   IN /\ row.issuer = issuer
                      /\ row.jwtId = last'.id
                      /\ row.origClaim = canonicalize(origs[k])
                      /\ TargetKind(origs[k]) = "action" => row.actionRowId \in TargetIds(origs[k])
                      /\ TargetKind(origs[k]) = "tenure" => row.tenureRowId \in TargetIds(origs[k])
                      /\ TargetKind(origs[k]) = "orgRole" => row.orgRoleRowId \in TargetIds(origs[k])
              /\ \A did \in allDidsInside(last'.jwtEncoded.payload.claim) :
                   <<did, issuer>> \in network' ]_vars

\* did:B has confirmed an array whose first element, a tenure, is not
\* recorded, whose second, an action, is, and whose third repeats the
\* second: one confirmation, of the action, and did:C sees did:B
C34_Witness ==
  /\ WasSubmit
  /\ last.jwtEncoded = Token("did:B", AgreeAction(JsonArray(
                         <<Tenure("did:C"), JoinAction("did:C"), JoinAction("did:C")>>)))
  /\ last.code = ""
  /\ Len(last.recordings) = 3
  /\ last.recordings[1].err # NoError
  /\ last.recordings[2].err = NoError
  /\ last.recordings[3].err # NoError
  /\ Len(confirmation) = 1
  /\ confirmation[1].jwtId = last.id
  /\ confirmation[1].actionRowId # NoId
  /\ <<"did:C", "did:B">> \in network

-----------------------------------------------------------------------------
(* Properties of the claim a payload carries *)

\* the issuer is registered and has not used up its week
UnderLimit(did) ==
  /\ IsRegistered(did)
  /\ IssuedInWeek(did, StartOfWeek(now)) < WeeklyMax(did)

HasClaim(payload) == truthy(payload, "claim")
HasSubject(payload) == truthy(payload, "vc") /\ truthy(payload.vc, "credentialSubject")

\* the step stores the claim in a new envelope and makes its typed record
StoresClaim(claim) ==
  /\ Len(jwt') = Len(jwt) + 1
  /\ jwt'[Len(jwt')].claim = canonicalize(claim)
  /\ jwt'[Len(jwt')].claimEncoded = base64url_encode(canonicalize(claim))
  /\ jwt'[Len(jwt')].claimType = claim.type
  /\ \/ /\ claim.type = "JoinAction"
        /\ tenure' = tenure
        /\ \/ Len(action') = Len(action) + 1 /\ action'[Len(action')].jwtId = last'.id
           \/ action' = action /\ last'.embeddedError # NoError
     \/ /\ claim.type = "Tenure"
        /\ action' = action
        /\ Len(tenure') = Len(tenure) + 1
        /\ tenure'[Len(tenure')].jwtId = last'.id

\* C35: a verified token of a registered issuer under its weekly maximum
\* whose payload has neither a claim nor a vc.credentialSubject is rejected
\* and nothing is persisted; when the payload has both, the claim stored is
\* payload.claim.
C35_ClaimExtracted ==
  [][ (/\ SubmitStep
       /\ Verifies(last'.jwtEncoded)
       /\ UnderLimit(last'.jwtEncoded.payload.iss))
        => LET payload == last'.jwtEncoded.payload
           IN /\ (~HasClaim(payload) /\ ~HasSubject(payload))
                   => /\ last'.code = "JWT had no 'claim' property."
                      /\ last'.id = NoId
                      /\ NothingPersisted
              /\ (HasClaim(payload) /\ HasSubject(payload))
                   => /\ last'.code = ""
                      /\ StoresClaim(payload.claim) ]_vars

\* did:A has stored a payload with a tenure as its claim and an action as
\* its credential subject, as a tenure, and has then had a payload with no
\* claim and no credential rejected
C35_Witness ==
  /\ WasSubmit
  /\ last.jwtEncoded = TokenNoClaim("did:A")
  /\ last.code = "JWT had no 'claim' property."
  /\ Len(jwt) = 1
  /\ jwt[1].jwtEncoded.payload =
       [iss |-> "did:A", claim |-> Tenure("did:C"), vc |-> Credential(JoinAction("did:C"))]
  /\ jwt[1].claim = canonicalize(Tenure("did:C"))
  /\ Len(tenure) = 1 /\ Len(action) = 0

-----------------------------------------------------------------------------
(* Properties of the order of the checks *)

\* the Registration row the lookup finds for the identity
FirstRegistration(did) ==
  registration[SeqMin({i \in 1..Len(registration) : registration[i].did = did})]

\* the rows that count against the identity's month
CountedInMonth(did) ==
  Cardinality({i \in 1..Len(registration) :
                 /\ registration[i].agent = did
                 /\ registration[i].epoch # NoNum
                 /\ registration[i].epoch >= StartOfMonth(now)})

MonthlyMaxOf(row) ==
  IF row.maxRegs = NoNum THEN DEFAULT_MAX_REGISTRATIONS_PER_MONTH ELSE row.maxRegs

WeeklyMaxOf(row) ==
  IF row.maxClaims = NoNum THEN DEFAULT_MAX_CLAIMS_PER_WEEK ELSE row.maxClaims

FailsVerification(token) == ~Verifies(token)
FailsIssuerMatch(token, authIssuerId) == authIssuerId # "" /\ token.payload.iss # authIssuerId
FailsRegistration(token) == ~IsRegistered(token.payload.iss)
FailsWeekly(token) ==
  /\ IsRegistered(token.payload.iss)
  /\ IssuedInWeek(token.payload.iss, StartOfWeek(now))
       >= WeeklyMaxOf(FirstRegistration(token.payload.iss))
FailsMonthly(token) ==
  /\ isEndorserRegistrationClaim(token.payload.claim)
  /\ IsRegistered(token.payload.iss)
  /\ CountedInMonth(token.payload.iss) >= MonthlyMaxOf(FirstRegistration(token.payload.iss))
FailsTooSoon(token) ==
  /\ isEndorserRegistrationClaim(token.payload.claim)
  /\ IsRegistered(token.payload.iss)
  /\ FirstRegistration(token.payload.iss).epoch > StartOfWeek(now)

\* the number of checks the submission fails
FailedChecks(token, authIssuerId) ==
  Cardinality({k \in 1..6 :
     \/ k = 1 /\ FailsVerification(token)
     \/ k = 2 /\ FailsIssuerMatch(token, authIssuerId)
     \/ k = 3 /\ FailsRegistration(token)
     \/ k = 4 /\ FailsWeekly(token)
     \/ k = 5 /\ FailsMonthly(token)
     \/ k = 6 /\ FailsTooSoon(token)})

\* the outcome the first failing check decides, "" if none fails
FirstFailure(token, authIssuerId) ==
  IF FailsVerification(token) THEN "JWT_VERIFY_FAILED"
  ELSE IF FailsIssuerMatch(token, authIssuerId) THEN "JWT issuer does not match claim issuer"
  ELSE IF FailsRegistration(token) THEN "UNREGISTERED_USER"
  ELSE IF FailsWeekly(token) THEN "OVER_CLAIM_LIMIT"
  ELSE IF FailsMonthly(token) THEN "OVER_REGISTRATION_LIMIT"
  ELSE IF FailsTooSoon(token) THEN "CANNOT_REGISTER_TOO_SOON"
  ELSE ""

TypedRecordsChange ==
  <<event, action, tenure, orgRole, vote, registration, confirmation>>' #
  <<event, action, tenure, orgRole, vote, registration, confirmation>>

\* C36: the checks before the envelope is stored run in one order and the
\* first that fails decides the outcome: verification, issuer match,
\* registration (UNREGISTERED_USER), weekly limit (OVER_CLAIM_LIMIT), and for
\* a registration claim the monthly limit (OVER_REGISTRATION_LIMIT) before
\* CANNOT_REGISTER_TOO_SOON.  The envelope is inserted only when all have
\* passed, typed records are made only after the insert, and visibility
\* edges are added only after the typed records were made.
C36_ChecksInOrder ==
  [][ SubmitStep
        => LET token == last'.jwtEncoded
               failure == FirstFailure(token, last'.authIssuerId)
           IN /\ last'.code = failure
              /\ failure # "" => NothingPersisted
              /\ failure = "" => (Len(jwt') = Len(jwt) + 1 /\ last'.id = Len(jwt'))
              /\ TypedRecordsChange => Len(jwt') = Len(jwt) + 1
              /\ network' # network
                   => (Len(jwt') = Len(jwt) + 1 /\ last'.embeddedError = NoError) ]_vars

\* did:B, registered this week by an envelope that names it as the agent,
\* submits a registration with a bad signature while the caller expects
\* did:A, having used up its month: four checks fail, the first decides
C36_Witness ==
  /\ WasSubmit
  /\ last.jwtEncoded = Signed(Token("did:B", RegisterAction("did:B", "did:C")), FALSE)
  /\ last.authIssuerId = "did:A"
  /\ FailedChecks(last.jwtEncoded, last.authIssuerId) = 4
  /\ last.code = "JWT_VERIFY_FAILED"

\* the same registration, signed and with no issuer expected: the monthly
\* limit and the week of did:B's own registration both fail
OverLimitAndTooSoon ==
  /\ WasSubmit
  /\ last.jwtEncoded = Token("did:B", RegisterAction("did:B", "did:C"))
  /\ FailsMonthly(last.jwtEncoded) /\ FailsTooSoon(last.jwtEncoded)
  /\ last.code = "OVER_REGISTRATION_LIMIT"

-----------------------------------------------------------------------------
(* Properties of a pass with a failed write *)

\* the rows that have a chain value are the first rows in id order
ChainedArePrefix ==
  \A i, j \in 1..Len(jwt) : (i < j /\ ~Unchained(j)) => ~Unchained(i)

\* C37 as stated: in every state, also after a pass in which one write of a
\* chain value has failed, the rows that have a chain value are a prefix of
\* the rows in id order and each is linked from its predecessor.
C37_AsStated ==
  /\ ChainedArePrefix
  /\ LinkedFromPredecessor

\* a later pass has given every row a chain value, and a row is not linked
\* from its predecessor
ResumedOffChain ==
  /\ last.op = "merkleUnmerkled"
  /\ \A i \in 1..Len(jwt) : ~Unchained(i)
  /\ ~LinkedFromPredecessor

=============================================================================
